---- MODULE Spec2Model ----
(***************************************************************************)
(* Model of IngAmbiental.py: the compliance evaluator evaluar_variable,    *)
(* the recommendation tagger recomendar_acciones and the session state of  *)
(* the Streamlit script (st.session_state) with the handlers that change   *)
(* it.                                                                     *)
(*                                                                         *)
(* Numbers.  Measured values and targets are integers (a common unit of    *)
(* the quantity; the evaluator only compares, subtracts and divides them). *)
(* Every quotient the code computes with "/" is kept as an exact fraction  *)
(* [num, den] in lowest terms with den > 0, so 50.0 is [num |-> 50,        *)
(* den |-> 1].  Floating-point rounding is not modelled.                   *)
(*                                                                         *)
(* Strings.  A status string such as "<green tick> Cumple" is the record   *)
(* [icono, texto]: icono is the leading emoji (the part the code tests     *)
(* with startswith), texto the words after it.                             *)
(***************************************************************************)
EXTENDS Integers, Sequences, FiniteSets, TLC

VARIABLES
    session_state,      \* st.session_state: the six keys of lines 144-179
    pagina,             \* the module chosen in the sidebar (line 327)
    etapa_evaluacion,   \* widget key "etapa_evaluacion": the selected stage
    clock,              \* datetime.now(): the number of Evaluate presses so far
    pantalla,           \* what the last run of the script put on the page
    call,               \* the function call under observation: fn, args, done
    ret                 \* what that call returned

widgets == <<pagina, etapa_evaluacion, clock, pantalla>>

vars == <<session_state, pagina, etapa_evaluacion, clock, pantalla, call, ret>>

(***************************************************************************)
(* Bounds of the model.                                                    *)
(***************************************************************************)
NegVals == 2            \* measured values and targets range over
MaxVal  == 6            \*   -NegVals .. MaxVal in the evaluator harness

Values == (0 - NegVals)..MaxVal

(***************************************************************************)
(* Exact arithmetic for Python's "/" and "* 100".                          *)
(***************************************************************************)
Abs(n) == IF n < 0 THEN 0 - n ELSE n

RECURSIVE GCD(_, _)
GCD(a, b) == IF b = 0 THEN a ELSE GCD(b, a % b)

\* the fraction n/d (d # 0) in lowest terms, denominator positive
Frac(n, d) ==
    LET g == GCD(Abs(n), Abs(d))
        s == IF d < 0 THEN 0 - 1 ELSE 1
    IN  [num |-> (s * n) \div g, den |-> (s * d) \div g]

Num(n) == [num |-> n, den |-> 1]

\* the value carried by a ZeroDivisionError travelling to its handler
ZeroDivisionError == [num |-> 0, den |-> 0]

IsException(x) == x.den = 0

\* a / b of Python: raises when b = 0
Div(a, b) == IF b = 0 THEN ZeroDivisionError ELSE Frac(a, b)

\* x * k for an integer k; an exception in x propagates
Times(x, k) == IF IsException(x) THEN x ELSE Frac(x.num * k, x.den)

\* x + y for fractions
Suma(x, y) == Frac(x.num * y.den + y.num * x.den, x.den * y.den)

\* x >= k and x < k for a fraction x and an integer k
GE(x, k) == x.num >= k * x.den
LT(x, k) == x.num < k * x.den

(***************************************************************************)
(* evaluar_variable (lines 204-252).                                       *)
(***************************************************************************)
Tipos == {"menor_mejor", "mayor_mejor"}

Cumple      == [icono |-> "verde",    texto |-> "Cumple"]
Advertencia == [icono |-> "amarillo", texto |-> "Advertencia"]
NoCumple    == [icono |-> "rojo",     texto |-> "No Cumple"]
EstadoError == [icono |-> "rojo",     texto |-> "Error"]

\* estado.startswith(<red circle>)
EmpiezaRojo(estado) == estado.icono = "rojo"
\* estado.startswith(<warning sign>)
EmpiezaAdvertencia(estado) == estado.icono = "amarillo"

\* line 218: (valor_objetivo / valor_actual) * 100 if valor_actual != 0 else 0
cumplimiento_menor_mejor_inv(valor_actual, valor_objetivo) ==
    IF valor_actual # 0 THEN Times(Div(valor_actual, valor_objetivo), 100) ELSE Num(0)

cumplimiento_menor_mejor_cero(valor_actual, valor_objetivo) ==
    IF valor_objetivo = 0 THEN Num(100)
    ELSE IF valor_actual # 0 THEN Times(Div(valor_objetivo, valor_actual), 100) ELSE Num(0)

cumplimiento_menor_mejor(valor_actual, valor_objetivo) ==
    IF valor_actual # 0 THEN Times(Div(valor_objetivo, valor_actual), 100) ELSE Num(0)

\* line 231: (valor_actual / valor_objetivo) * 100 if valor_objetivo != 0 else 0
cumplimiento_mayor_mejor_sin_guarda(valor_actual, valor_objetivo) ==
    Times(Div(valor_actual, valor_objetivo), 100)

cumplimiento_mayor_mejor_inv(valor_actual, valor_objetivo) ==
    IF valor_objetivo # 0 /\ valor_actual # 0
    THEN Times(Div(valor_objetivo, valor_actual), 100) ELSE Num(0)

cumplimiento_mayor_mejor(valor_actual, valor_objetivo) ==
    IF valor_objetivo # 0 THEN Times(Div(valor_actual, valor_objetivo), 100) ELSE Num(0)

\* lines 219-224 and 232-237: the tier of a value that misses its target.
\* An exception raised while computing cumplimiento leaves the try body.
Nivel_estricto(cumplimiento) ==
    IF IsException(cumplimiento)
    THEN [exc |-> TRUE, cumplimiento |-> cumplimiento, estado |-> EstadoError, color |-> "red"]
    ELSE IF cumplimiento.num > 80 * cumplimiento.den
         THEN [exc |-> FALSE, cumplimiento |-> cumplimiento, estado |-> Advertencia, color |-> "orange"]
         ELSE [exc |-> FALSE, cumplimiento |-> cumplimiento, estado |-> NoCumple, color |-> "red"]

Nivel(cumplimiento) ==
    IF IsException(cumplimiento)
    THEN [exc |-> TRUE, cumplimiento |-> cumplimiento, estado |-> EstadoError, color |-> "red"]
    ELSE IF GE(cumplimiento, 80)
         THEN [exc |-> FALSE, cumplimiento |-> cumplimiento, estado |-> Advertencia, color |-> "orange"]
         ELSE [exc |-> FALSE, cumplimiento |-> cumplimiento, estado |-> NoCumple, color |-> "red"]

CumpleTotal == [exc |-> FALSE, cumplimiento |-> Num(100), estado |-> Cumple, color |-> "green"]

\* lines 212-237: the body of the try statement
TryBody_menor_estricto(valor_actual, valor_objetivo, tipo) ==
    IF tipo = "menor_mejor"
    THEN IF valor_actual < valor_objetivo
         THEN CumpleTotal
         ELSE Nivel(cumplimiento_menor_mejor(valor_actual, valor_objetivo))
    ELSE IF valor_actual >= valor_objetivo
         THEN CumpleTotal
         ELSE Nivel(cumplimiento_mayor_mejor(valor_actual, valor_objetivo))

TryBody_mayor_estricto(valor_actual, valor_objetivo, tipo) ==
    IF tipo = "menor_mejor"
    THEN IF valor_actual <= valor_objetivo
         THEN CumpleTotal
         ELSE Nivel(cumplimiento_menor_mejor(valor_actual, valor_objetivo))
    ELSE IF valor_actual > valor_objetivo
         THEN CumpleTotal
         ELSE Nivel(cumplimiento_mayor_mejor(valor_actual, valor_objetivo))

TryBody(valor_actual, valor_objetivo, tipo) ==
    IF tipo = "menor_mejor"
    THEN IF valor_actual <= valor_objetivo
         THEN CumpleTotal
         ELSE Nivel(cumplimiento_menor_mejor(valor_actual, valor_objetivo))
    ELSE IF valor_actual >= valor_objetivo
         THEN CumpleTotal
         ELSE Nivel(cumplimiento_mayor_mejor(valor_actual, valor_objetivo))

\* lines 238-241: except Exception
ExceptBranch == [cumplimiento |-> Num(0), estado |-> EstadoError, color |-> "red"]

\* line 244: ((valor_actual - valor_objetivo) / valor_objetivo) * 100
\*           if valor_objetivo != 0 else 0
diferencia_porcentual_sin_guarda(valor_actual, valor_objetivo) ==
    Times(Div(valor_actual - valor_objetivo, valor_objetivo), 100)

diferencia_porcentual_abs(valor_actual, valor_objetivo) ==
    IF valor_objetivo # 0
    THEN Times(Div(Abs(valor_actual - valor_objetivo), valor_objetivo), 100)
    ELSE Num(0)

diferencia_porcentual(valor_actual, valor_objetivo) ==
    IF valor_objetivo # 0
    THEN Times(Div(valor_actual - valor_objetivo, valor_objetivo), 100)
    ELSE Num(0)

\* what a caller sees when the function ends in an exception instead of
\* returning (line 244 is outside the try statement)
Raised == [exception |-> "ZeroDivisionError"]

CamposEvaluacion ==
    {"cumplimiento", "estado", "color", "diferencia", "diferencia_porcentual"}

\* float(cumplimiento) of line 247 turns the int 0 of a guarded division
\* into 0.0: the same number
evaluar_variable(valor_actual, valor_objetivo, tipo) ==
    LET body == TryBody(valor_actual, valor_objetivo, tipo)
        r    == IF body.exc THEN ExceptBranch
                ELSE [cumplimiento |-> body.cumplimiento,
                      estado |-> body.estado, color |-> body.color]
        dp   == diferencia_porcentual(valor_actual, valor_objetivo)
    IN  IF IsException(dp) THEN Raised
        ELSE [cumplimiento          |-> r.cumplimiento,
              estado                |-> r.estado,
              color                 |-> r.color,
              diferencia            |-> valor_actual - valor_objetivo,
              diferencia_porcentual |-> dp]

(***************************************************************************)
(* variables_criticas (lines 81-107).  Python dicts keep insertion order:  *)
(* the table is the sequence of its stages, each with the sequence of its  *)
(* variables.  actual and objetivo are in hundredths of the unit, so       *)
(* 99.95 % is 9995 and 8500 kWh is 850000.                                 *)
(***************************************************************************)
variables_criticas ==
    <<
      [etapa |-> "Selección y Preparación",
       variables |-> <<
           [nombre |-> "Consumo energético (molienda)", actual |-> 850000, objetivo |-> 750000, unidad |-> "kWh"],
           [nombre |-> "Pureza del cobre", actual |-> 9995, objetivo |-> 9990, unidad |-> "%"],
           [nombre |-> "Material reciclado", actual |-> 3500, objetivo |-> 5000, unidad |-> "%"] >>],
      [etapa |-> "Fabricación de Tubos",
       variables |-> <<
           [nombre |-> "Consumo agua proceso", actual |-> 12000, objetivo |-> 10000, unidad |-> "m³"],
           [nombre |-> "Residuos metálicos", actual |-> 4500, objetivo |-> 3000, unidad |-> "kg"],
           [nombre |-> "Eficiencia extrusión", actual |-> 8800, objetivo |-> 9200, unidad |-> "%"] >>],
      [etapa |-> "Limpieza Química",
       variables |-> <<
           [nombre |-> "Ácidos agotados", actual |-> 6500, objetivo |-> 4000, unidad |-> "L"],
           [nombre |-> "Metales pesados en efluente", actual |-> 1500, objetivo |-> 1000, unidad |-> "mg/L"],
           [nombre |-> "Reutilización de solventes", actual |-> 4000, objetivo |-> 7000, unidad |-> "%"] >>],
      [etapa |-> "Mecanizado",
       variables |-> <<
           [nombre |-> "Fluidos de corte usados", actual |-> 8000, objetivo |-> 5000, unidad |-> "L"],
           [nombre |-> "Virutas recuperadas", actual |-> 7500, objetivo |-> 9000, unidad |-> "%"],
           [nombre |-> "Emisiones VOC", actual |-> 1200, objetivo |-> 800, unidad |-> "mg/m³"] >>],
      [etapa |-> "Soldadura/Brazing",
       variables |-> <<
           [nombre |-> "Consumo gas inerte", actual |-> 5000, objetivo |-> 4000, unidad |-> "m³"],
           [nombre |-> "Tasa de rechazo", actual |-> 350, objetivo |-> 200, unidad |-> "%"],
           [nombre |-> "Energía horno", actual |-> 120000, objetivo |-> 100000, unidad |-> "kWh"] >>] >>

\* the characters of every variable name of the table
Caracteres(nombre) ==
    CASE nombre = "Consumo energético (molienda)" ->
           <<"C", "o", "n", "s", "u", "m", "o", " ", "e", "n", "e", "r", "g", "é", "t", "i", "c", "o", " ", "(", "m", "o", "l", "i", "e", "n", "d", "a", ")">>
      [] nombre = "Pureza del cobre" ->
           <<"P", "u", "r", "e", "z", "a", " ", "d", "e", "l", " ", "c", "o", "b", "r", "e">>
      [] nombre = "Material reciclado" ->
           <<"M", "a", "t", "e", "r", "i", "a", "l", " ", "r", "e", "c", "i", "c", "l", "a", "d", "o">>
      [] nombre = "Consumo agua proceso" ->
           <<"C", "o", "n", "s", "u", "m", "o", " ", "a", "g", "u", "a", " ", "p", "r", "o", "c", "e", "s", "o">>
      [] nombre = "Residuos metálicos" ->
           <<"R", "e", "s", "i", "d", "u", "o", "s", " ", "m", "e", "t", "á", "l", "i", "c", "o", "s">>
      [] nombre = "Eficiencia extrusión" ->
           <<"E", "f", "i", "c", "i", "e", "n", "c", "i", "a", " ", "e", "x", "t", "r", "u", "s", "i", "ó", "n">>
      [] nombre = "Ácidos agotados" ->
           <<"Á", "c", "i", "d", "o", "s", " ", "a", "g", "o", "t", "a", "d", "o", "s">>
      [] nombre = "Metales pesados en efluente" ->
           <<"M", "e", "t", "a", "l", "e", "s", " ", "p", "e", "s", "a", "d", "o", "s", " ", "e", "n", " ", "e", "f", "l", "u", "e", "n", "t", "e">>
      [] nombre = "Reutilización de solventes" ->
           <<"R", "e", "u", "t", "i", "l", "i", "z", "a", "c", "i", "ó", "n", " ", "d", "e", " ", "s", "o", "l", "v", "e", "n", "t", "e", "s">>
      [] nombre = "Fluidos de corte usados" ->
           <<"F", "l", "u", "i", "d", "o", "s", " ", "d", "e", " ", "c", "o", "r", "t", "e", " ", "u", "s", "a", "d", "o", "s">>
      [] nombre = "Virutas recuperadas" ->
           <<"V", "i", "r", "u", "t", "a", "s", " ", "r", "e", "c", "u", "p", "e", "r", "a", "d", "a", "s">>
      [] nombre = "Emisiones VOC" ->
           <<"E", "m", "i", "s", "i", "o", "n", "e", "s", " ", "V", "O", "C">>
      [] nombre = "Consumo gas inerte" ->
           <<"C", "o", "n", "s", "u", "m", "o", " ", "g", "a", "s", " ", "i", "n", "e", "r", "t", "e">>
      [] nombre = "Tasa de rechazo" ->
           <<"T", "a", "s", "a", " ", "d", "e", " ", "r", "e", "c", "h", "a", "z", "o">>
      [] nombre = "Energía horno" ->
           <<"E", "n", "e", "r", "g", "í", "a", " ", "h", "o", "r", "n", "o">>

\* line 256
mayor_mejor_keywords ==
    << <<"p", "u", "r", "e", "z", "a">>,
       <<"m", "a", "t", "e", "r", "i", "a", "l", " ", "r", "e", "c", "i", "c", "l", "a", "d", "o">>,
       <<"e", "f", "i", "c", "i", "e", "n", "c", "i", "a">>,
       <<"r", "e", "u", "t", "i", "l", "i", "z", "a", "c", "i", "ó", "n">>,
       <<"v", "i", "r", "u", "t", "a", "s", " ", "r", "e", "c", "u", "p", "e", "r", "a", "d", "a", "s">>,
       <<"r", "e", "c", "i", "c", "l", "a", "d", "o">> >>

\* line 329: the options of the sidebar selectbox
Paginas ==
    << "Dashboard Principal", "Metodología y Desarrollo", "Ingreso y Evaluación",
       "Variables Críticas", "Simulación de Escenarios", "Economía Circular",
       "ODS y Cumplimiento", "Gestión de Residuos", "Reportes" >>

PaginaTablero    == Paginas[1]
PaginaIngreso    == Paginas[3]
PaginaVariables  == Paginas[4]
PaginaSimulacion == Paginas[5]
PaginaEconomia   == Paginas[6]

(***************************************************************************)
(* Session state after the first run of the script (lines 144-179).        *)
(***************************************************************************)
EmptyDict == [k \in {} |-> 0]

\* last_eval_ts = None; the timestamps of Evaluate presses are 1, 2, ...
None == 0

LotesIniciales ==
    [codigo \in {"LOTE-2024-1205", "LOTE-2024-1201"} |->
        IF codigo = "LOTE-2024-1205"
        THEN [Origen              |-> "Mina Los Pelambres, Chile",
              Tipo                |-> "Cobre electrolitico C12200",
              Contenido_reciclado |-> "42%",
              Pureza              |-> "99.95%",
              Fecha_ingreso       |-> "2024-11-15",
              Masa_total          |-> "1,250 kg",
              Estado              |-> "En proceso - Fabricacion de tubos",
              Certificacion       |-> "ASTM B75 ok"]
        ELSE [Origen              |-> "Reciclaje interno",
              Tipo                |-> "Cobre reciclado C12200",
              Contenido_reciclado |-> "100%",
              Pureza              |-> "99.90%",
              Fecha_ingreso       |-> "2024-11-10",
              Masa_total          |-> "850 kg",
              Estado              |-> "En proceso - Seleccion y Preparacion",
              Certificacion       |-> "ASTM B75 ok"]]

SessionInit ==
    [datos_ingresados  |-> EmptyDict,
     evaluar           |-> FALSE,
     simular           |-> FALSE,
     lotes_registrados |-> LotesIniciales,
     alert_counts      |-> EmptyDict,
     last_eval_ts      |-> None]

(***************************************************************************)
(* What a run shows, as far as the model follows it: the persistent alert  *)
(* of the dashboard, the message a button answers with, the status shown   *)
(* for every variable of the stage on page 3 or of the simulated stage,    *)
(* the stage and the base values shown on the simulation page, the         *)
(* compliance charted per stage on page "Variables Criticas", and the      *)
(* cumplimiento of every variable and the summary of the stage on page 3.  *)
(***************************************************************************)
PantallaVacia ==
    [alerta |-> FALSE, persistent_alarms |-> {}, mensaje |-> "",
     estados |-> [k \in {} |-> 0],
     etapa_simulacion |-> "", datos_base |-> [k \in {} |-> 0],
     cumplimiento_data |-> [k \in {} |-> 0],
     cumplimientos |-> [k \in {} |-> 0],
     cumplimiento_promedio |-> [num |-> 0, den |-> 1],
     estado_general |-> "", variables_cumplen |-> 0]

\* the threshold as it would be with > in place of >=
persistent_alarms_mayor(alert_counts) ==
    UNION {{[variable |-> vname, etapa |-> etapa,
             count |-> alert_counts[etapa][vname].count] :
                vname \in {v \in DOMAIN alert_counts[etapa] :
                              alert_counts[etapa][v].count > 3}} :
           etapa \in DOMAIN alert_counts}

\* lines 421-425: one entry "{vname} en {etapa} (fuera de norma {count}
\* veces)" for every pair whose count is at least 3
persistent_alarms(alert_counts) ==
    UNION {{[variable |-> vname, etapa |-> etapa,
             count |-> alert_counts[etapa][vname].count] :
                vname \in {v \in DOMAIN alert_counts[etapa] :
                              alert_counts[etapa][v].count >= 3}} :
           etapa \in DOMAIN alert_counts}

\* lines 427-430: the alert and its list are shown when the list is not empty
PantallaTablero(ss) ==
    [PantallaVacia EXCEPT
        !.alerta            = persistent_alarms(ss.alert_counts) # {},
        !.persistent_alarms = persistent_alarms(ss.alert_counts)]

(***************************************************************************)
(* Calls of the helper functions, observed through call and ret.           *)
(***************************************************************************)
\* call = [fn, args, done]: the function and arguments under observation,
\* and whether the call has been made; ret = NoRet until it has
NoRet  == [pending |-> TRUE]

EvalCalls ==
    {[fn |-> "evaluar_variable", args |-> <<valor_actual, valor_objetivo, tipo>>,
      done |-> FALSE] :
        valor_actual \in Values, valor_objetivo \in Values, tipo \in Tipos}

\* a call evaluar_variable(valor_actual, valor_objetivo, tipo): the function
\* body reads and writes nothing but its arguments and locals
CallEvaluarVariable_reset(valor_actual, valor_objetivo, tipo) ==
    /\ call.fn = "evaluar_variable"
    /\ call.args = <<valor_actual, valor_objetivo, tipo>>
    /\ call' = [call EXCEPT !.done = TRUE]
    /\ ret' = evaluar_variable(valor_actual, valor_objetivo, tipo)
    /\ session_state' = [session_state EXCEPT !.last_eval_ts = None]
    /\ UNCHANGED widgets

CallEvaluarVariable(valor_actual, valor_objetivo, tipo) ==
    /\ call.fn = "evaluar_variable"
    /\ call.args = <<valor_actual, valor_objetivo, tipo>>
    /\ call' = [call EXCEPT !.done = TRUE]
    /\ ret' = evaluar_variable(valor_actual, valor_objetivo, tipo)
    /\ UNCHANGED <<session_state, widgets>>

\* the first run of the script: the sidebar shows its first option and
\* every selectbox its first entry
InitSession ==
    /\ session_state = SessionInit
    /\ pagina = Paginas[1]
    /\ etapa_evaluacion = variables_criticas[1].etapa
    /\ clock = 0
    /\ pantalla = PantallaTablero(SessionInit)

InitEval ==
    /\ InitSession
    /\ call \in EvalCalls
    /\ ret = NoRet

\* the call under observation is made, for the first time or again
NextEval ==
    /\ call.fn = "evaluar_variable"
    /\ CallEvaluarVariable(call.args[1], call.args[2], call.args[3])

\* the evaluator applied to every input of Values x Values x Tipos
SpecEval == InitEval /\ [][NextEval]_vars

Evaluated == call.fn = "evaluar_variable" /\ call.done
Returned  == DOMAIN ret = CamposEvaluacion
arg_valor    == call.args[1]
arg_objetivo == call.args[2]
arg_tipo     == call.args[3]

(***************************************************************************)
(* Properties of evaluar_variable, checked under SpecEval.                 *)
(***************************************************************************)

\* C1: with direction menor_mejor and a target > 0, every value <= target
\* is returned with cumplimiento = 100 and the status Cumple.
C1_MenorMejorCumple ==
    (Evaluated /\ arg_tipo = "menor_mejor" /\ arg_objetivo > 0
        /\ arg_valor <= arg_objetivo)
    => (Returned /\ ret.cumplimiento = Num(100) /\ ret.estado = Cumple)

C1_Witness ==
    /\ Evaluated /\ arg_tipo = "menor_mejor"
    /\ arg_objetivo > 0 /\ arg_valor = arg_objetivo
    /\ Returned /\ ret.cumplimiento = Num(100) /\ ret.color = "green"

\* C2: with direction menor_mejor and a target > 0, value = 2 x target is
\* returned with cumplimiento = 50.
C2_DobleObjetivo ==
    (Evaluated /\ arg_tipo = "menor_mejor" /\ arg_objetivo > 0
        /\ arg_valor = 2 * arg_objetivo)
    => (Returned /\ ret.cumplimiento = Num(50))

C2_Witness ==
    /\ Evaluated /\ arg_tipo = "menor_mejor"
    /\ arg_objetivo = 3 /\ arg_valor = 6
    /\ Returned /\ ret.cumplimiento = Num(50) /\ ret.estado = NoCumple

\* C3 as stated: with target 0 the cumplimiento is 0 for every value >= 0
\* (value 0 included) in both directions.
C3_ObjetivoCeroDaCero ==
    (Evaluated /\ arg_objetivo = 0 /\ arg_valor >= 0)
    => (Returned /\ ret.cumplimiento = Num(0))

\* C3 amended: with target 0 the cumplimiento is 0 for every value > 0 in
\* direction menor_mejor; a value 0 in direction menor_mejor and every
\* value >= 0 in direction mayor_mejor meet the target: cumplimiento 100,
\* status Cumple.
C3_ObjetivoCero ==
    (Evaluated /\ arg_objetivo = 0 /\ arg_valor >= 0)
    => /\ Returned
       /\ IF arg_tipo = "menor_mejor" /\ arg_valor > 0
          THEN ret.cumplimiento = Num(0) /\ ret.estado = NoCumple
          ELSE ret.cumplimiento = Num(100) /\ ret.estado = Cumple

C3_Witness ==
    /\ Evaluated /\ arg_objetivo = 0 /\ arg_valor > 0
    /\ arg_tipo = "menor_mejor"
    /\ Returned /\ ret.cumplimiento = Num(0)

\* C4: for every value >= 0 and target >= 0, in either direction, the call
\* returns (no exception leaves it) a record with exactly the fields
\* cumplimiento, estado, color, diferencia, diferencia_porcentual, and
\* diferencia_porcentual is 0 when the target is 0.
C4_SiempreRetorna ==
    (Evaluated /\ arg_valor >= 0 /\ arg_objetivo >= 0)
    => /\ ret # Raised
       /\ DOMAIN ret = CamposEvaluacion
       /\ (arg_objetivo = 0 => ret.diferencia_porcentual = Num(0))

C4_Witness ==
    /\ Evaluated /\ arg_objetivo = 0 /\ arg_valor = 0
    /\ Returned /\ ret.diferencia_porcentual = Num(0) /\ ret.diferencia = 0

\* C5: a value equal to its target meets it: evaluar_variable(v, v, tipo)
\* has status Cumple and cumplimiento 100 in both directions.
C5_IgualdadCumple ==
    (Evaluated /\ arg_valor = arg_objetivo)
    => (Returned /\ ret.estado = Cumple /\ ret.cumplimiento = Num(100))

C5_Witness ==
    /\ Evaluated /\ arg_valor = arg_objetivo /\ arg_valor > 0
    /\ arg_tipo = "mayor_mejor"
    /\ Returned /\ ret.estado = Cumple

\* C6: for every value and target (negative ones included) and either
\* direction the status is one of Cumple, Advertencia, No Cumple; the
\* status Error of the except branch is never returned.
C6_TresEstados ==
    Evaluated
    => /\ Returned
       /\ ret.estado \in {Cumple, Advertencia, NoCumple}
       /\ ret.estado # EstadoError

C6_Witness ==
    /\ Evaluated /\ arg_tipo = "mayor_mejor"
    /\ arg_objetivo = 0 /\ arg_valor < 0
    /\ Returned /\ ret.estado = NoCumple

\* C7: for value >= 0 and target >= 0, 0 <= cumplimiento <= 100, and
\* cumplimiento = 100 exactly when the status is Cumple.
C7_RangoCumplimiento ==
    (Evaluated /\ arg_valor >= 0 /\ arg_objetivo >= 0)
    => /\ Returned
       /\ ret.cumplimiento.den > 0
       /\ GE(ret.cumplimiento, 0)
       /\ ret.cumplimiento.num <= 100 * ret.cumplimiento.den
       /\ (ret.cumplimiento = Num(100)) <=> (ret.estado = Cumple)

C7_Witness ==
    /\ Evaluated /\ arg_valor >= 0 /\ arg_objetivo >= 0
    /\ Returned /\ ret.estado = Advertencia
    /\ GE(ret.cumplimiento, 80) /\ LT(ret.cumplimiento, 100)

\* C8: for a target > 0, diferencia_porcentual = (value - target) / target
\* x 100 in both directions: positive when value > target, negative when
\* value < target, 0 when value = target; and diferencia = value - target.
C8_DiferenciaPorcentual ==
    (Evaluated /\ arg_objetivo > 0)
    => /\ Returned
       /\ ret.diferencia_porcentual.den > 0
       /\ ret.diferencia_porcentual.num * arg_objetivo
              = (arg_valor - arg_objetivo) * 100 * ret.diferencia_porcentual.den
       /\ (arg_valor > arg_objetivo) <=> (ret.diferencia_porcentual.num > 0)
       /\ (arg_valor < arg_objetivo) <=> (ret.diferencia_porcentual.num < 0)
       /\ (arg_valor = arg_objetivo) <=> (ret.diferencia_porcentual = Num(0))
       /\ ret.diferencia = arg_valor - arg_objetivo

C8_Witness ==
    /\ Evaluated /\ arg_objetivo > 0 /\ arg_valor < arg_objetivo
    /\ arg_tipo = "menor_mejor"
    /\ Returned /\ ret.diferencia_porcentual.num < 0 /\ ret.diferencia < 0

(***************************************************************************)
(* Text.  A Python str is the sequence of its characters.                  *)
(***************************************************************************)
Mayusculas == <<"A", "B", "C", "D", "E", "F", "G", "H", "I", "J", "K", "L", "M", "N", "O", "P", "Q", "R", "S", "T", "U", "V", "W", "X", "Y", "Z", "Á", "É", "Í", "Ó", "Ú", "Ñ">>
Minusculas == <<"a", "b", "c", "d", "e", "f", "g", "h", "i", "j", "k", "l", "m", "n", "o", "p", "q", "r", "s", "t", "u", "v", "w", "x", "y", "z", "á", "é", "í", "ó", "ú", "ñ">>

\* str.lower() on one character
LowerChar(c) ==
    IF \E i \in 1..Len(Mayusculas) : Mayusculas[i] = c
    THEN Minusculas[CHOOSE i \in 1..Len(Mayusculas) : Mayusculas[i] = c]
    ELSE c

\* str.lower() that lowers nothing
Lower_sin_cambio(str) == str

\* str.lower()
Lower(str) == [i \in 1..Len(str) |-> LowerChar(str[i])]

\* the Python test  sub in str
In(sub, str) ==
    \E i \in 1..(Len(str) - Len(sub) + 1) :
        SubSeq(str, i, i + Len(sub) - 1) = sub

\* the keywords recomendar_acciones looks for (lines 273-292)
kw_agua     == <<"a", "g", "u", "a">>
kw_efluente == <<"e", "f", "l", "u", "e", "n", "t", "e">>
kw_energ    == <<"e", "n", "e", "r", "g">>
kw_kwh      == <<"k", "w", "h">>
kw_molienda == <<"m", "o", "l", "i", "e", "n", "d", "a">>
kw_residuo  == <<"r", "e", "s", "i", "d", "u", "o">>
kw_lodos    == <<"l", "o", "d", "o", "s">>
kw_acidos   == <<"á", "c", "i", "d", "o", "s">>
kw_acido    == <<"á", "c", "i", "d", "o">>
kw_pureza   == <<"p", "u", "r", "e", "z", "a">>
kw_virutas  == <<"v", "i", "r", "u", "t", "a", "s">>
kw_emision  == <<"e", "m", "i", "s", "i", "o", "n">>
kw_co2      == <<"c", "o", "2">>
kw_voc      == <<"v", "o", "c">>

(***************************************************************************)
(* Bounds of the names handed to the tagger: a name is at most MaxPalabras *)
(* words of Vocabulario joined by single spaces.                           *)
(***************************************************************************)
MaxPalabras == 2

Vocabulario ==
    { <<"a", "g", "u", "a">>,
      <<"A", "G", "U", "A">>,
      <<"e", "f", "l", "u", "e", "n", "t", "e">>,
      <<"E", "n", "e", "r", "g", "í", "a">>,
      <<"k", "W", "h">>,
      <<"m", "o", "l", "i", "e", "n", "d", "a">>,
      <<"R", "e", "s", "i", "d", "u", "o", "s">>,
      <<"l", "o", "d", "o", "s">>,
      <<"Á", "c", "i", "d", "o", "s">>,
      <<"á", "c", "i", "d", "o">>,
      <<"P", "u", "r", "e", "z", "a">>,
      <<"v", "i", "r", "u", "t", "a", "s">>,
      <<"E", "m", "i", "s", "i", "o", "n", "e", "s">>,
      <<"C", "O", "2">>,
      <<"V", "O", "C">>,
      <<"t", "a", "s", "a">> }

RECURSIVE NombresDe(_)
NombresDe(n) ==
    IF n = 0 THEN {<<>>}
    ELSE IF n = 1 THEN Vocabulario
    ELSE {nombre \o <<" ">> \o palabra :
              nombre \in NombresDe(n - 1), palabra \in Vocabulario}

Nombres == UNION {NombresDe(n) : n \in 0..MaxPalabras}

(***************************************************************************)
(* recomendar_acciones (lines 262-304).                                    *)
(***************************************************************************)
RecAguaFugas        == "Revisar perdidas y fugas en circuito de agua."
RecAguaRecirculacion == "Evaluar sistemas de recirculacion y recuperacion de aguas de proceso."
RecAguaTratamiento  == "Implementar tratamiento en linea y monitoreo de metales pesados."
RecEnergiaMolino    == "Revisar eficiencia del molino y programacion de mantenimiento preventivo."
RecEnergiaCalor     == "Analizar posibilidad de recuperacion de calor o uso de motores de mayor eficiencia."
RecEnergiaRediseno  == "Evaluar rediseno de parametros de molienda para disminuir consumo."
RecResiduosSegregar == "Segregar residuos en origen y establecer rutas de valorizacion."
RecResiduosNeutralizar == "Implementar neutralizacion y tratamiento de acidos antes del efluente."
RecResiduosFuente   == "Priorizar reduccion en la fuente y buscar proveedores de reciclaje de subproductos."
RecPurezaControles  == "Reforzar controles de calidad y procesos de purificacion."
RecPurezaAjustar    == "Ajustar parametros de proceso y revisar materia prima."
RecEmisionMonitoreo == "Monitoreo continuo de emisiones y mejoras en captacion."
RecEmisionHornos    == "Optimizar hornos y procesos termicos para reducir emisiones."
RecPlanInmediato    == "Plan de accion inmediato: asignar responsable y fecha limite para correccion."
RecMonitorearSemanal == "Monitorear semanalmente y aplicar medidas de mejora en 30 dias."

\* the comparison as it would be against 0 whatever k is
GT_cero(x, k) == x.num > 0

\* x > k for a fraction x and an integer k
GT(x, k) == x.num > k * x.den

\* recomendaciones.append(...) under a condition
Si(cond, lista) == IF cond THEN lista ELSE <<>>

\* line 303: list(dict.fromkeys(recomendaciones)) keeps the first
\* occurrence of every element, in order
RECURSIVE DictFromKeys(_)
DictFromKeys(lista) ==
    IF lista = <<>> THEN <<>>
    ELSE LET resto == DictFromKeys(SubSeq(lista, 1, Len(lista) - 1))
             ultimo == lista[Len(lista)]
         IN  IF \E i \in 1..Len(resto) : resto[i] = ultimo
             THEN resto
             ELSE Append(resto, ultimo)

\* lines 296-300: the closing recommendation by status
RecPorEstado_siempre_plan(estado) ==
    IF EmpiezaRojo(estado) \/ EmpiezaAdvertencia(estado) THEN <<RecPlanInmediato>>
    ELSE <<>>

RecPorEstado(estado) ==
    IF EmpiezaRojo(estado) THEN <<RecPlanInmediato>>
    ELSE IF EmpiezaAdvertencia(estado) THEN <<RecMonitorearSemanal>>
    ELSE <<>>

\* the function as it would be with one test per keyword and no line 303
recomendar_acciones_por_palabra(var_nombre, evaluacion) ==
    LET estado == evaluacion.estado
        v      == Lower(var_nombre)
    IN  Si(In(kw_agua, v),
           <<RecAguaFugas, RecAguaRecirculacion>>
           \o Si(EmpiezaRojo(estado), <<RecAguaTratamiento>>))
        \o Si(In(kw_efluente, v),
           <<RecAguaFugas, RecAguaRecirculacion>>
           \o Si(EmpiezaRojo(estado), <<RecAguaTratamiento>>))
        \o RecPorEstado(estado)

recomendar_acciones(var_nombre, evaluacion) ==
    LET diff_pct == evaluacion.diferencia_porcentual
        estado   == evaluacion.estado
        v        == Lower(var_nombre)
        recomendaciones ==
            Si(In(kw_agua, v) \/ In(kw_efluente, v),
               <<RecAguaFugas, RecAguaRecirculacion>>
               \o Si(EmpiezaRojo(estado), <<RecAguaTratamiento>>))
            \o Si(In(kw_energ, v) \/ In(kw_kwh, v) \/ In(kw_molienda, v),
               <<RecEnergiaMolino, RecEnergiaCalor>>
               \o Si(GT(diff_pct, 20), <<RecEnergiaRediseno>>))
            \o Si(In(kw_residuo, v) \/ In(kw_lodos, v)
                    \/ In(kw_acidos, v) \/ In(kw_acido, v),
               <<RecResiduosSegregar, RecResiduosNeutralizar>>
               \o Si(EmpiezaRojo(estado), <<RecResiduosFuente>>))
            \o Si(In(kw_pureza, v) \/ In(kw_virutas, v),
               <<RecPurezaControles>>
               \o Si(EmpiezaRojo(estado), <<RecPurezaAjustar>>))
            \o Si(In(kw_emision, v) \/ In(kw_co2, v) \/ In(kw_voc, v),
               <<RecEmisionMonitoreo, RecEmisionHornos>>)
            \o RecPorEstado(estado)
    IN  DictFromKeys(recomendaciones)

\* the evaluations handed to the tagger: results of evaluar_variable for a
\* target of 100 and values below, at and above it
ValoresRec == {50, 90, 100, 110, 124, 130}

Evaluaciones ==
    {evaluar_variable(valor, 100, tipo) : valor \in ValoresRec, tipo \in Tipos}

RecCalls ==
    {[fn |-> "recomendar_acciones", args |-> <<var_nombre, evaluacion>>,
      done |-> FALSE] :
        var_nombre \in Nombres, evaluacion \in Evaluaciones}

\* a call recomendar_acciones(var_nombre, evaluacion)
CallRecomendarAcciones(var_nombre, evaluacion) ==
    /\ call.fn = "recomendar_acciones"
    /\ call.args = <<var_nombre, evaluacion>>
    /\ call' = [call EXCEPT !.done = TRUE]
    /\ ret' = recomendar_acciones(var_nombre, evaluacion)
    /\ UNCHANGED <<session_state, widgets>>

\* the call under observation is made, for the first time or again
NextRec ==
    /\ call.fn = "recomendar_acciones"
    /\ CallRecomendarAcciones(call.args[1], call.args[2])

\* the tagger applied to every name of Nombres and evaluation of Evaluaciones
InitRec ==
    /\ InitSession
    /\ call \in RecCalls
    /\ ret = NoRet

SpecRec == InitRec /\ [][NextRec]_vars

Recommended == call.fn = "recomendar_acciones" /\ call.done

SinRepetidos(lista) ==
    \A i, j \in 1..Len(lista) : lista[i] = lista[j] => i = j

\* C10: the list returned by recomendar_acciones contains no recommendation
\* more than once, for every name and evaluation; removing duplicates from
\* it again changes nothing; and a call repeated with the same name and
\* evaluation returns the same list in the same order.
C10_SinDuplicados ==
    /\ [](Recommended => (SinRepetidos(ret) /\ DictFromKeys(ret) = ret))
    /\ [][(Recommended /\ call' = call) => ret' = ret]_vars

C10_Witness ==
    /\ Recommended
    /\ In(kw_agua, Lower(call.args[1])) /\ In(kw_efluente, Lower(call.args[1]))
    /\ call.args[2].estado = NoCumple
    /\ ret = <<RecAguaFugas, RecAguaRecirculacion, RecAguaTratamiento,
               RecPlanInmediato>>

(***************************************************************************)
(* Python dicts as functions.                                              *)
(***************************************************************************)
\* d.get(k, default)
Get(d, k, default) == IF k \in DOMAIN d THEN d[k] ELSE default

\* d[k] = v
Put(d, k, v) == [x \in DOMAIN d \cup {k} |-> IF x = k THEN v ELSE d[x]]

\* d.update(e)
Update(d, e) ==
    [x \in DOMAIN d \cup DOMAIN e |-> IF x \in DOMAIN e THEN e[x] ELSE d[x]]

\* del d[k]
Del(d, k) == [x \in DOMAIN d \ {k} |-> d[x]]

(***************************************************************************)
(* determinar_tipo_variable (lines 254-260).                               *)
(***************************************************************************)
determinar_tipo_variable(nombre_variable) ==
    LET nombre_lower == Lower(nombre_variable)
    IN  IF \E i \in 1..Len(mayor_mejor_keywords) :
               In(mayor_mejor_keywords[i], nombre_lower)
        THEN "mayor_mejor"
        ELSE "menor_mejor"

(***************************************************************************)
(* Page "Ingreso y Evaluacion" (lines 491-715).                            *)
(***************************************************************************)
\* Bounds: the model visits MaxEtapas stages of the table, taken in the
\* order OrdenEtapas; Evaluate is pressed at most MaxEvaluaciones times.
MaxEtapas       == 2
MaxEvaluaciones == 2
MaxEditados     == 1

Min(a, b) == IF a < b THEN a ELSE b

\* the first two stages of the table, then the others from the last
OrdenEtapas == <<1, 2, 5, 4, 3>>

Etapas ==
    {variables_criticas[OrdenEtapas[i]].etapa :
        i \in 1..Min(MaxEtapas, Len(variables_criticas))}

\* variables_criticas[etapa]
variables_etapa(etapa) ==
    LET i == CHOOSE j \in 1..Len(variables_criticas) :
                 variables_criticas[j].etapa = etapa
    IN  variables_criticas[i].variables

NombresEtapa(etapa) ==
    {variables_etapa(etapa)[i].nombre : i \in 1..Len(variables_etapa(etapa))}

\* lines 598 and 902: determinar_tipo_variable(var_nombre) for every
\* variable of the table
tipo_variable ==
    [var_nombre \in UNION {NombresEtapa(variables_criticas[i].etapa) :
                              i \in 1..Len(variables_criticas)} |->
        determinar_tipo_variable(Caracteres(var_nombre))]

\* the rows of the table, over all stages
FilasTabla ==
    UNION {{variables_criticas[i].variables[j] :
               j \in 1..Len(variables_criticas[i].variables)} :
           i \in 1..Len(variables_criticas)}

\* evaluar_variable for the values actual and objetivo of a row
EvaluacionesFila(fila) ==
    [valor \in {fila.actual, fila.objetivo} |->
        evaluar_variable(valor, fila.objetivo, tipo_variable[fila.nombre])]

\* lines 599 and 893-899: evaluar_variable(valor, objetivo, tipo) for every
\* variable of the table and the values actual and objetivo of its row
evaluaciones_tabla ==
    [var_nombre \in {fila.nombre : fila \in FilasTabla} |->
        EvaluacionesFila(CHOOSE fila \in FilasTabla : fila.nombre = var_nombre)]

\* lines 596-599: the evaluation of a variable of the table for a value
evaluacion_variable(var_data, valor_actual) ==
    Get(evaluaciones_tabla[var_data.nombre], valor_actual,
        evaluar_variable(valor_actual, var_data.objetivo,
                         tipo_variable[var_data.nombre]))

\* lines 517, 531, 547: the value a number_input starts with
valor_guardado(ss, etapa, var_data) ==
    Get(Get(ss.datos_ingresados, etapa, EmptyDict), var_data.nombre, var_data.actual)

\* datos_formulario when the inputs of the stage show their starting values
FormularioInicial(ss, etapa) ==
    LET variables == variables_etapa(etapa)
    IN  [nombre \in NombresEtapa(etapa) |->
            LET i == CHOOSE j \in 1..Len(variables) : variables[j].nombre = nombre
            IN  valor_guardado(ss, etapa, variables[i])]

\* datos_formulario after the user has typed values: the model lets the
\* user replace the table's actual value by the objetivo in at most
\* MaxEditados inputs of the stage
Formularios(etapa) ==
    LET variables == variables_etapa(etapa)
        editado(indices) ==
            [nombre \in NombresEtapa(etapa) |->
                LET i == CHOOSE j \in 1..Len(variables) : variables[j].nombre = nombre
                IN  IF i \in indices THEN variables[i].objetivo
                    ELSE variables[i].actual]
    IN  {editado(indices) :
            indices \in {x \in SUBSET (1..Len(variables)) :
                            Cardinality(x) <= MaxEditados}}

\* the handler as it would be if it stored the form in a fresh dict
GuardarDatos_dict_nuevo(ss, etapa, datos_formulario) ==
    [ss EXCEPT !.datos_ingresados = Put(EmptyDict, etapa, datos_formulario)]

\* lines 562-565: the Guardar Datos handler up to st.rerun()
GuardarDatos(ss, etapa, datos_formulario) ==
    [ss EXCEPT !.datos_ingresados =
        Put(@, etapa, Update(Get(@, etapa, EmptyDict), datos_formulario))]

\* lines 574-577: the Evaluar Datos handler
PresionarEvaluar(ss, ahora) ==
    [ss EXCEPT !.last_eval_ts = ahora, !.evaluar = TRUE]

\* the handler as it would be if it reset the alert history of the stage
LimpiarDatos_con_alertas(ss, etapa) ==
    [ss EXCEPT !.datos_ingresados =
                  IF etapa \in DOMAIN @ THEN Del(@, etapa) ELSE @,
               !.alert_counts =
                  IF etapa \in DOMAIN @ THEN Del(@, etapa) ELSE @]

\* lines 580-582: the Limpiar Datos handler up to st.rerun()
LimpiarDatos(ss, etapa) ==
    [ss EXCEPT !.datos_ingresados =
        IF etapa \in DOMAIN @ THEN Del(@, etapa) ELSE @]

\* the update as it would be if a status other than Fails reset the count
ActualizarAlerta_consecutivo(alert_counts, etapa, var_nombre, estado, ts) ==
    LET etapa_counts == Get(alert_counts, etapa, EmptyDict)
        var_info     == Get(etapa_counts, var_nombre, [count |-> 0, last_ts |-> None])
    IN  IF var_info.last_ts # ts
        THEN Put(alert_counts, etapa,
                 Put(etapa_counts, var_nombre,
                     [count   |-> IF EmpiezaRojo(estado)
                                  THEN var_info.count + 1 ELSE 0,
                      last_ts |-> ts]))
        ELSE alert_counts

\* the update as it would be without the test of last_ts
ActualizarAlerta_sin_marca(alert_counts, etapa, var_nombre, estado, ts) ==
    LET etapa_counts == Get(alert_counts, etapa, EmptyDict)
        var_info     == Get(etapa_counts, var_nombre, [count |-> 0, last_ts |-> None])
    IN  Put(alert_counts, etapa,
            Put(etapa_counts, var_nombre,
                [count   |-> IF EmpiezaRojo(estado)
                             THEN var_info.count + 1 ELSE var_info.count,
                 last_ts |-> ts]))

\* the update as it would be if a Warning counted as well
ActualizarAlerta_advertencia(alert_counts, etapa, var_nombre, estado, ts) ==
    LET etapa_counts == Get(alert_counts, etapa, EmptyDict)
        var_info     == Get(etapa_counts, var_nombre, [count |-> 0, last_ts |-> None])
    IN  IF var_info.last_ts # ts
        THEN Put(alert_counts, etapa,
                 Put(etapa_counts, var_nombre,
                     [count   |-> IF EmpiezaRojo(estado) \/ EmpiezaAdvertencia(estado)
                                  THEN var_info.count + 1 ELSE var_info.count,
                      last_ts |-> ts]))
        ELSE alert_counts

\* lines 613-620: the alert record of one variable after its evaluation
ActualizarAlerta(alert_counts, etapa, var_nombre, estado, ts) ==
    LET etapa_counts == Get(alert_counts, etapa, EmptyDict)
        var_info     == Get(etapa_counts, var_nombre, [count |-> 0, last_ts |-> None])
    IN  IF var_info.last_ts # ts
        THEN Put(alert_counts, etapa,
                 Put(etapa_counts, var_nombre,
                     [count   |-> IF EmpiezaRojo(estado)
                                  THEN var_info.count + 1 ELSE var_info.count,
                      last_ts |-> ts]))
        ELSE alert_counts

\* lines 595-620: the loop over the variables of the stage, from the i-th on
RECURSIVE LoopEvaluacion(_, _, _, _, _)
LoopEvaluacion(alert_counts, ts, etapa, datos_formulario, i) ==
    LET variables == variables_etapa(etapa) IN
    IF i > Len(variables) THEN alert_counts
    ELSE LET var_data     == variables[i]
             valor_actual == Get(datos_formulario, var_data.nombre, var_data.actual)
             evaluacion   == evaluacion_variable(var_data, valor_actual)
             despues      == IF ts # None
                             THEN ActualizarAlerta(alert_counts, etapa,
                                      var_data.nombre, evaluacion.estado, ts)
                             ELSE alert_counts
         IN  LoopEvaluacion(despues, ts, etapa, datos_formulario, i + 1)

\* lines 589-715: the evaluation block of the page
BloqueEvaluacion(ss, etapa, datos_formulario) ==
    IF ss.evaluar \/ DOMAIN datos_formulario # {}
    THEN [ss EXCEPT
            !.alert_counts = LoopEvaluacion(@, ss.last_eval_ts, etapa,
                                            datos_formulario, 1),
            !.evaluar = FALSE]
    ELSE ss

\* lines 595-599 and 625: the status the page shows for a variable of the
\* stage
EstadoMostrado(etapa, var_nombre, datos_formulario) ==
    LET variables == variables_etapa(etapa)
        var_data  == variables[CHOOSE j \in 1..Len(variables) :
                                   variables[j].nombre = var_nombre]
        valor_actual == Get(datos_formulario, var_nombre, var_data.actual)
    IN  evaluacion_variable(var_data, valor_actual).estado

\* sum(cumplimientos) of line 663, from the i-th evaluation on
RECURSIVE SumaCumplimientos(_, _)
SumaCumplimientos(evaluaciones, i) ==
    IF i > Len(evaluaciones) THEN Num(0)
    ELSE Suma(evaluaciones[i].cumplimiento, SumaCumplimientos(evaluaciones, i + 1))

EstadoExcelente == "Excelente"
EstadoAceptable == "Aceptable"
EstadoAtencion  == "Requiere Atención"

\* the tiers as they would be with the second threshold at 90
estado_general_noventa(cumplimiento_promedio) ==
    IF GE(cumplimiento_promedio, 100) THEN EstadoExcelente
    ELSE IF GE(cumplimiento_promedio, 90) THEN EstadoAceptable
    ELSE EstadoAtencion

\* lines 673-681: the overall state of the stage
estado_general(cumplimiento_promedio) ==
    IF GE(cumplimiento_promedio, 100) THEN EstadoExcelente
    ELSE IF GE(cumplimiento_promedio, 80) THEN EstadoAceptable
    ELSE EstadoAtencion

\* lines 595-606: the evaluation of every variable of the stage, in the
\* order of the table
EvaluacionesEtapa(variables, datos_formulario) ==
    [i \in 1..Len(variables) |->
        evaluacion_variable(variables[i],
            Get(datos_formulario, variables[i].nombre, variables[i].actual))]

\* line 663: sum(cumplimientos) / len(cumplimientos) if cumplimientos else 0
Promedio(total, n) ==
    IF n > 0 THEN Frac(total.num, total.den * n) ELSE Num(0)

\* lines 622-687: status and cumplimiento of every variable, and the
\* summary of the stage
Resumen(variables, evaluaciones, cumplimiento_promedio) ==
    [PantallaVacia EXCEPT
        !.estados =
            [var_nombre \in {variables[i].nombre : i \in 1..Len(variables)} |->
                evaluaciones[CHOOSE j \in 1..Len(variables) :
                                 variables[j].nombre = var_nombre].estado],
        !.cumplimientos =
            [var_nombre \in {variables[i].nombre : i \in 1..Len(variables)} |->
                evaluaciones[CHOOSE j \in 1..Len(variables) :
                                 variables[j].nombre = var_nombre].cumplimiento],
        !.cumplimiento_promedio = cumplimiento_promedio,
        !.estado_general = estado_general(cumplimiento_promedio),
        !.variables_cumplen =
            Cardinality({i \in 1..Len(evaluaciones) :
                            GE(evaluaciones[i].cumplimiento, 100)})]

ResultadosDe(variables, evaluaciones) ==
    Resumen(variables, evaluaciones,
            Promedio(SumaCumplimientos(evaluaciones, 1), Len(evaluaciones)))

\* lines 595-606, 622-687: what the evaluation block shows
ResultadosEvaluacion(etapa, datos_formulario) ==
    ResultadosDe(variables_etapa(etapa),
                 EvaluacionesEtapa(variables_etapa(etapa), datos_formulario))

\* the forms over the variables nombres whose values are drawn, for each
\* variable, from valores[variable]
FormulariosDe(nombres, valores) ==
    {f \in [nombres -> UNION {valores[var_nombre] : var_nombre \in nombres}] :
        \A var_nombre \in nombres : f[var_nombre] \in valores[var_nombre]}

ResultadosEtapa(etapa, formularios) ==
    [datos_formulario \in formularios |->
        ResultadosEvaluacion(etapa, datos_formulario)]

\* the results for every stage of the table and every form made of the
\* values actual and objetivo of its variables
resultados_tabla ==
    [etapa \in {variables_criticas[i].etapa : i \in 1..Len(variables_criticas)} |->
        ResultadosEtapa(etapa,
            FormulariosDe(NombresEtapa(etapa),
                [var_nombre \in DOMAIN evaluaciones_tabla |->
                    DOMAIN evaluaciones_tabla[var_nombre]]))]

PantallaEvaluacion(etapa, datos_formulario) ==
    Get(resultados_tabla[etapa], datos_formulario,
        ResultadosEvaluacion(etapa, datos_formulario))

(***************************************************************************)
(* Page "Variables Criticas" (lines 720-778).                              *)
(***************************************************************************)
\* lines 757-763: the sum over the variables of a stage, from the i-th on;
\* every variable is scored as lines 213-218 score direction menor_mejor
RECURSIVE cumplimiento_total(_, _)
cumplimiento_total(variables, i) ==
    IF i > Len(variables) THEN Num(0)
    ELSE Suma(IF variables[i].actual <= variables[i].objetivo
              THEN Num(100)
              ELSE IF variables[i].actual # 0
                   THEN Times(Div(variables[i].objetivo, variables[i].actual), 100)
                   ELSE Num(0),
              cumplimiento_total(variables, i + 1))

\* lines 755-765: cumplimiento_promedio of every stage of the table
cumplimiento_data ==
    [etapa \in {variables_criticas[i].etapa : i \in 1..Len(variables_criticas)} |->
        LET variables == variables_etapa(etapa)
            total     == cumplimiento_total(variables, 1)
        IN  Frac(total.num, total.den * Len(variables))]

\* lines 767-778: the chart of the page
PantallaVariables ==
    [PantallaVacia EXCEPT !.cumplimiento_data = cumplimiento_data]

(***************************************************************************)
(* The base values of page "Simulacion de Escenarios" (lines 783-831).     *)
(***************************************************************************)
\* the base values as they would be if the saved data were not looked at
datos_base_por_defecto(ss, etapa_simulacion) ==
    [var_nombre \in NombresEtapa(etapa_simulacion) |->
        LET variables == variables_etapa(etapa_simulacion)
        IN  variables[CHOOSE j \in 1..Len(variables) :
                          variables[j].nombre = var_nombre].actual]

\* lines 798-804: the saved values of the stage, or the ones of the table
datos_base(ss, etapa_simulacion) ==
    IF etapa_simulacion \in DOMAIN ss.datos_ingresados
    THEN ss.datos_ingresados[etapa_simulacion]
    ELSE [var_nombre \in NombresEtapa(etapa_simulacion) |->
             LET variables == variables_etapa(etapa_simulacion)
             IN  variables[CHOOSE j \in 1..Len(variables) :
                               variables[j].nombre = var_nombre].actual]

\* lines 786-831: the stage of the selectbox and valores_actuales_display
PantallaSimulacion(ss, etapa_simulacion) ==
    [PantallaVacia EXCEPT
        !.etapa_simulacion = etapa_simulacion,
        !.datos_base =
            [var_nombre \in NombresEtapa(etapa_simulacion) |->
                LET variables == variables_etapa(etapa_simulacion)
                    var_data  == variables[CHOOSE j \in 1..Len(variables) :
                                               variables[j].nombre = var_nombre]
                IN  Get(datos_base(ss, etapa_simulacion), var_nombre,
                        var_data.actual)]]

(***************************************************************************)
(* The script as a state machine.  Streamlit runs the script from top to   *)
(* bottom once per interaction; a button is True only in the run its click *)
(* starts; st.rerun() ends the run at once and starts a run without any    *)
(* button pressed; a keyed widget that a run does not draw loses its value *)
(* and shows its starting value when it is drawn again.  One action is one *)
(* interaction with every run it causes.                                   *)
(***************************************************************************)
PrimeraEtapa == variables_criticas[1].etapa

\* line 327: another module is chosen in the sidebar.  Entering page 3
\* draws the first stage with the starting values of its inputs and runs
\* the evaluation block; the other pages write none of the six keys unless
\* one of their buttons is pressed.
SeleccionarPagina(p) ==
    /\ p # pagina
    /\ pagina' = p
    /\ etapa_evaluacion' = PrimeraEtapa
    /\ session_state' =
          IF p = PaginaIngreso
          THEN BloqueEvaluacion(session_state, PrimeraEtapa,
                                FormularioInicial(session_state, PrimeraEtapa))
          ELSE session_state
    /\ pantalla' =
          IF p = PaginaTablero THEN PantallaTablero(session_state)
          ELSE IF p = PaginaIngreso
          THEN PantallaEvaluacion(PrimeraEtapa,
                                  FormularioInicial(session_state, PrimeraEtapa))
          ELSE IF p = PaginaSimulacion
          THEN PantallaSimulacion(session_state, PrimeraEtapa)
          ELSE IF p = PaginaVariables
          THEN PantallaVariables
          ELSE PantallaVacia
    /\ UNCHANGED <<clock, call, ret>>

\* line 497: another stage is chosen on page 3
SeleccionarEtapa(etapa) ==
    /\ pagina = PaginaIngreso
    /\ etapa # etapa_evaluacion
    /\ etapa_evaluacion' = etapa
    /\ session_state' =
          BloqueEvaluacion(session_state, etapa,
                           FormularioInicial(session_state, etapa))
    /\ pantalla' =
          PantallaEvaluacion(etapa, FormularioInicial(session_state, etapa))
    /\ UNCHANGED <<pagina, clock, call, ret>>

\* lines 514-556: a value is typed into an input of the stage, after which
\* the inputs hold datos_formulario; the script runs without a button
EditarFormulario(datos_formulario) ==
    /\ pagina = PaginaIngreso
    /\ session_state' =
          BloqueEvaluacion(session_state, etapa_evaluacion, datos_formulario)
    /\ pantalla' = PantallaEvaluacion(etapa_evaluacion, datos_formulario)
    /\ UNCHANGED <<pagina, etapa_evaluacion, clock, call, ret>>

\* line 562: Guardar Datos is pressed with datos_formulario in the inputs;
\* the run stops at st.rerun() and the page is run again
ClickGuardar(datos_formulario) ==
    /\ pagina = PaginaIngreso
    /\ session_state' =
          BloqueEvaluacion(
              GuardarDatos(session_state, etapa_evaluacion, datos_formulario),
              etapa_evaluacion, datos_formulario)
    /\ pantalla' = PantallaEvaluacion(etapa_evaluacion, datos_formulario)
    /\ UNCHANGED <<pagina, etapa_evaluacion, clock, call, ret>>

\* line 574: Evaluar Datos is pressed; the same run goes on to the
\* evaluation block
ClickEvaluar(datos_formulario) ==
    /\ pagina = PaginaIngreso
    /\ clock < MaxEvaluaciones
    /\ clock' = clock + 1
    /\ session_state' =
          BloqueEvaluacion(PresionarEvaluar(session_state, clock + 1),
                           etapa_evaluacion, datos_formulario)
    /\ pantalla' = PantallaEvaluacion(etapa_evaluacion, datos_formulario)
    /\ UNCHANGED <<pagina, etapa_evaluacion, call, ret>>

\* line 580: Limpiar Datos is pressed; the run stops at st.rerun() and the
\* page is run again, its inputs showing what was typed or, where the
\* removal of the saved data changed their starting values, those
ClickLimpiar(datos_formulario) ==
    /\ pagina = PaginaIngreso
    /\ LET limpio == LimpiarDatos(session_state, etapa_evaluacion)
       IN  \E formulario \in {datos_formulario,
                              FormularioInicial(limpio, etapa_evaluacion)} :
               /\ session_state' =
                     BloqueEvaluacion(limpio, etapa_evaluacion, formulario)
               /\ pantalla' = PantallaEvaluacion(etapa_evaluacion, formulario)
    /\ UNCHANGED <<pagina, etapa_evaluacion, clock, call, ret>>

(***************************************************************************)
(* Page "Simulacion de Escenarios" (lines 783-999).                        *)
(***************************************************************************)
\* line 886: the Ejecutar Simulacion handler
PresionarSimular(ss) == [ss EXCEPT !.simular = TRUE]

\* the results block as it would be if it stored nothing of the session
BloqueSimulacion_borra_datos(ss) ==
    IF ss.simular
    THEN [ss EXCEPT !.simular = FALSE, !.datos_ingresados = EmptyDict]
    ELSE ss

\* the results block as it would be without its last line
BloqueSimulacion_sin_reset(ss) == ss

\* lines 891-999: the results block; it reads datos_ingresados and the
\* inputs of the page and ends by resetting the flag
BloqueSimulacion(ss) ==
    IF ss.simular THEN [ss EXCEPT !.simular = FALSE] ELSE ss

MensajeSimulacion == "Resultados de la Simulación"

\* lines 893-896: the status of the simulated value of every variable
EstadosSimulados(etapa_simulacion, datos, cambios_simulacion) ==
    [var_nombre \in NombresEtapa(etapa_simulacion) |->
        EstadoMostrado(etapa_simulacion, var_nombre,
            [nombre \in NombresEtapa(etapa_simulacion) |->
                Get(cambios_simulacion, nombre, datos[nombre])])]

\* line 786: another stage is chosen on the simulation page
SeleccionarEtapaSimulacion(etapa_simulacion) ==
    /\ pagina = PaginaSimulacion
    /\ etapa_simulacion # pantalla.etapa_simulacion
    /\ session_state' = BloqueSimulacion(session_state)
    /\ pantalla' = PantallaSimulacion(session_state, etapa_simulacion)
    /\ UNCHANGED <<pagina, etapa_evaluacion, clock, call, ret>>

\* line 885: Ejecutar Simulacion is pressed with cambios_simulacion in the
\* inputs; the same run goes on to the results block
ClickSimular(cambios_simulacion) ==
    /\ pagina = PaginaSimulacion
    /\ session_state' = BloqueSimulacion(PresionarSimular(session_state))
    /\ pantalla' =
          LET base == PantallaSimulacion(session_state, pantalla.etapa_simulacion)
          IN  [base EXCEPT
                  !.mensaje = MensajeSimulacion,
                  !.estados = EstadosSimulados(pantalla.etapa_simulacion,
                                               base.datos_base,
                                               cambios_simulacion)]
    /\ UNCHANGED <<pagina, etapa_evaluacion, clock, call, ret>>

(***************************************************************************)
(* Page "Economia Circular" (lines 1004-1119).                             *)
(***************************************************************************)
\* line 198: generar_codigo_lote(), the code the form proposes; it is built
\* from the time of the run, the model uses the one of a single moment
codigo_auto == "LOTE-2024-1205-101500"

\* the codes typed into the registration form and into the search box
CodigosLote == {"", "LOTE-2024-1205", codigo_auto}

CodigosBuscados == {"LOTE-2024-1201", codigo_auto}

\* the record as it would be with the three texts stored as typed
NuevoLote_sin_defecto(origen, tipo, certificacion) ==
    [Origen              |-> origen,
     Tipo                |-> tipo,
     Contenido_reciclado |-> "0.0%",
     Pureza              |-> "99.00%",
     Fecha_ingreso       |-> "2024-12-05",
     Masa_total          |-> "1,000.0 kg",
     Estado              |-> "En proceso - Seleccion y Preparacion",
     Certificacion       |-> certificacion]

\* lines 1097-1106: the record built from the inputs of the form, the
\* number inputs, date and state being left at their starting values
NuevoLote(origen, tipo, certificacion) ==
    [Origen              |-> IF origen # "" THEN origen ELSE "No especificado",
     Tipo                |-> IF tipo # "" THEN tipo ELSE "No especificado",
     Contenido_reciclado |-> "0.0%",
     Pureza              |-> "99.00%",
     Fecha_ingreso       |-> "2024-12-05",
     Masa_total          |-> "1,000.0 kg",
     Estado              |-> "En proceso - Seleccion y Preparacion",
     Certificacion       |-> IF certificacion # "" THEN certificacion
                             ELSE "No especificada"]

\* the handler as it would be if it stored the new record in a fresh dict
RegistrarLote_dict_nuevo(ss, codigo_lote, origen, tipo, certificacion) ==
    [ss EXCEPT !.lotes_registrados =
        Put(EmptyDict, codigo_lote, NuevoLote(origen, tipo, certificacion))]

\* the handler as it would be if it kept the record of a code already there
RegistrarLote_conserva(ss, codigo_lote, origen, tipo, certificacion) ==
    [ss EXCEPT !.lotes_registrados =
        IF codigo_lote \in DOMAIN @ THEN @
        ELSE Put(@, codigo_lote, NuevoLote(origen, tipo, certificacion))]

\* lines 1094-1106: the Registrar Lote handler for a non-empty code
RegistrarLote(ss, codigo_lote, origen, tipo, certificacion) ==
    [ss EXCEPT !.lotes_registrados =
        Put(@, codigo_lote, NuevoLote(origen, tipo, certificacion))]

MensajeCodigoVacio   == "Por favor ingrese un código de lote"
MensajeEncontrado    == "Lote encontrado en el sistema"
MensajeNoEncontrado  == "Lote no encontrado en el sistema"

\* line 1093: Registrar Lote is pressed.  With a code the record is stored
\* and st.rerun() draws the page again; without one the run shows an error
ClickRegistrarLote(codigo_lote, origen, tipo, certificacion) ==
    /\ pagina = PaginaEconomia
    /\ IF codigo_lote # ""
       THEN /\ session_state' = RegistrarLote(session_state, codigo_lote,
                                              origen, tipo, certificacion)
            /\ pantalla' = PantallaVacia
       ELSE /\ session_state' = session_state
            /\ pantalla' = [PantallaVacia EXCEPT !.mensaje = MensajeCodigoVacio]
    /\ UNCHANGED <<pagina, etapa_evaluacion, clock, call, ret>>

\* line 1034: Rastrear Lote is pressed with lote_buscar in the search box
ClickRastrearLote(lote_buscar) ==
    /\ pagina = PaginaEconomia
    /\ pantalla' = [PantallaVacia EXCEPT !.mensaje =
                       IF lote_buscar \in DOMAIN session_state.lotes_registrados
                       THEN MensajeEncontrado ELSE MensajeNoEncontrado]
    /\ UNCHANGED <<session_state, pagina, etapa_evaluacion, clock, call, ret>>

NoCall == [fn |-> "none", args |-> <<>>, done |-> FALSE]

Init ==
    /\ InitSession
    /\ call = NoCall
    /\ ret = NoRet

\* The session: every page is visited, Evaluar Datos is pressed with any
\* form of Formularios, Guardar Datos and Limpiar Datos with the inputs at
\* their starting values, and lots are registered without origin, type or
\* certification.
Next ==
    \/ \E p \in {Paginas[i] : i \in 1..Len(Paginas)} : SeleccionarPagina(p)
    \/ \E etapa \in Etapas : SeleccionarEtapa(etapa)
    \/ ClickGuardar(FormularioInicial(session_state, etapa_evaluacion))
    \/ \E datos_formulario \in Formularios(etapa_evaluacion) :
          ClickEvaluar(datos_formulario)
    \/ ClickLimpiar(FormularioInicial(session_state, etapa_evaluacion))
    \/ ClickSimular(datos_base(session_state, pantalla.etapa_simulacion))
    \/ \E codigo_lote \in CodigosLote : ClickRegistrarLote(codigo_lote, "", "", "")
    \/ \E lote_buscar \in CodigosBuscados : ClickRastrearLote(lote_buscar)

Spec == Init /\ [][Next]_vars

(***************************************************************************)
(* Calls of evaluar_variable made while the session changes: the buttons   *)
(* of page 3 are pressed with the inputs at their starting values, and the *)
(* function is called with arguments of ValoresSesion at any moment.       *)
(***************************************************************************)
ValoresSesion == {0, 1}

EvalCallsSesion ==
    {c \in EvalCalls : c.args[1] \in ValoresSesion /\ c.args[2] \in ValoresSesion}

InitLlamadas ==
    /\ InitSession
    /\ call \in EvalCallsSesion
    /\ ret = NoRet

NextLlamadas ==
    \/ \E p \in {Paginas[i] : i \in 1..Len(Paginas)} : SeleccionarPagina(p)
    \/ \E etapa \in Etapas : SeleccionarEtapa(etapa)
    \/ ClickGuardar(FormularioInicial(session_state, etapa_evaluacion))
    \/ ClickEvaluar(FormularioInicial(session_state, etapa_evaluacion))
    \/ ClickLimpiar(FormularioInicial(session_state, etapa_evaluacion))
    \/ NextEval

SpecLlamadas == InitLlamadas /\ [][NextLlamadas]_vars

ods_auto_relacion ==
    [agua       |-> "ODS 6 - Agua Limpia y Saneamiento",
     energia    |-> "ODS 7 - Energía Asequible y No Contaminante",
     residuos   |-> "ODS 12 - Producción y Consumo Responsables",
     emisiones  |-> "ODS 13 - Acción por el Clima",
     innovacion |-> "ODS 9 - Industria, Innovación e Infraestructura"]

\* the keywords only identificar_ods looks for (lines 133, 135)
kw_energia  == <<"e", "n", "e", "r", "g", "i", "a">>
kw_residuos == <<"r", "e", "s", "i", "d", "u", "o", "s">>

\* the function as it would be with the energy test before the water test
identificar_ods_energia_primero(variable) ==
    LET v == Lower(variable)
    IN  IF In(kw_energ, v) \/ In(kw_energia, v) \/ In(kw_kwh, v)
        THEN ods_auto_relacion.energia
        ELSE IF In(kw_agua, v) \/ In(kw_efluente, v)
        THEN ods_auto_relacion.agua
        ELSE IF In(kw_residuo, v) \/ In(kw_residuos, v) \/ In(kw_lodos, v)
        THEN ods_auto_relacion.residuos
        ELSE IF In(kw_co2, v) \/ In(kw_emision, v) \/ In(kw_voc, v)
        THEN ods_auto_relacion.emisiones
        ELSE ods_auto_relacion.innovacion

identificar_ods(variable) ==
    LET v == Lower(variable)
    IN  IF In(kw_agua, v) \/ In(kw_efluente, v)
        THEN ods_auto_relacion.agua
        ELSE IF In(kw_energ, v) \/ In(kw_energia, v) \/ In(kw_kwh, v)
        THEN ods_auto_relacion.energia
        ELSE IF In(kw_residuo, v) \/ In(kw_residuos, v) \/ In(kw_lodos, v)
        THEN ods_auto_relacion.residuos
        ELSE IF In(kw_co2, v) \/ In(kw_emision, v) \/ In(kw_voc, v)
        THEN ods_auto_relacion.emisiones
        ELSE ods_auto_relacion.innovacion

(***************************************************************************)
(* Calls of the three functions that read a variable's name: the same call *)
(* is made again with the name in another letter case, and the tagger is   *)
(* called again with another evaluation.                                   *)
(***************************************************************************)
\* the same character in upper case
UpperChar(c) ==
    IF \E i \in 1..Len(Minusculas) : Minusculas[i] = c
    THEN Mayusculas[CHOOSE i \in 1..Len(Minusculas) : Minusculas[i] = c]
    ELSE c

\* the character in the other letter case
SwapChar(c) == IF UpperChar(c) # c THEN UpperChar(c) ELSE LowerChar(c)

\* the name written in capitals, and with the case of every letter inverted
Upper(str)    == [i \in 1..Len(str) |-> UpperChar(str[i])]
SwapCase(str) == [i \in 1..Len(str) |-> SwapChar(str[i])]

\* the spellings of a name the user may type instead of it
Variantes(nombre) == {Upper(nombre), SwapCase(nombre)}

\* evaluations handed to the tagger with a name: one that meets the target,
\* warnings 10 % and 24 % off, and a failure
EvaluacionesNombre ==
    {evaluar_variable(100, 100, "menor_mejor"),
     evaluar_variable(110, 100, "menor_mejor"),
     evaluar_variable(90, 100, "mayor_mejor"),
     evaluar_variable(124, 100, "menor_mejor"),
     evaluar_variable(130, 100, "menor_mejor")}

FuncionesNombre ==
    {"recomendar_acciones", "identificar_ods", "determinar_tipo_variable"}

NombreCalls ==
    {[fn |-> "recomendar_acciones", args |-> <<var_nombre, evaluacion>>,
      done |-> FALSE] :
        var_nombre \in Nombres, evaluacion \in EvaluacionesNombre}
    \cup {[fn |-> fn, args |-> <<variable>>, done |-> FALSE] :
            fn \in {"identificar_ods", "determinar_tipo_variable"},
            variable \in Nombres}

\* the value the function fn returns for the arguments args
Aplicar(fn, args) ==
    CASE fn = "recomendar_acciones"      -> recomendar_acciones(args[1], args[2])
      [] fn = "identificar_ods"          -> identificar_ods(args[1])
      [] fn = "determinar_tipo_variable" -> determinar_tipo_variable(args[1])

\* a call fn(*args)
CallNombre(fn, args) ==
    /\ call' = [fn |-> fn, args |-> args, done |-> TRUE]
    /\ ret' = Aplicar(fn, args)
    /\ UNCHANGED <<session_state, widgets>>

\* the pending call is made
PrimeraLlamada ==
    /\ ~ call.done
    /\ CallNombre(call.fn, call.args)

\* the function is called again with the name spelled as variable
OtraCaja(variable) ==
    /\ call.done
    /\ variable # call.args[1]
    /\ CallNombre(call.fn, [call.args EXCEPT ![1] = variable])

\* the tagger is called again with the same name and another evaluation
OtraEvaluacion(evaluacion) ==
    /\ call.done
    /\ call.fn = "recomendar_acciones"
    /\ evaluacion # call.args[2]
    /\ CallNombre(call.fn, [call.args EXCEPT ![2] = evaluacion])

InitNombre ==
    /\ InitSession
    /\ call \in NombreCalls
    /\ ret = NoRet

NextNombre ==
    \/ PrimeraLlamada
    \/ \E variable \in Variantes(call.args[1]) : OtraCaja(variable)
    \/ \E evaluacion \in EvaluacionesNombre : OtraEvaluacion(evaluacion)

SpecNombre == InitNombre /\ [][NextNombre]_vars

\* two names that differ only in letter case
MismaLetra(a, b) ==
    \/ a = b
    \/ \E i \in 1..Len(Mayusculas) : {a, b} = {Mayusculas[i], Minusculas[i]}

SoloDifiereCaja(a, b) ==
    /\ Len(a) = Len(b)
    /\ \A i \in 1..Len(a) : MismaLetra(a[i], b[i])

\* C11: keyword matching is case-insensitive.  When a call of
\* recomendar_acciones, identificar_ods or determinar_tipo_variable is
\* followed by a call of the same function whose name differs from the first
\* only in letter case (the evaluation, if any, being the same), the second
\* call returns what the first returned.
C11_SinDistincionDeCaja ==
    [][(/\ call.done /\ call'.done
        /\ call'.fn = call.fn
        /\ SoloDifiereCaja(call.args[1], call'.args[1])
        /\ Len(call.args) = 2 => call'.args[2] = call.args[2])
       => ret' = ret]_vars

\* the tagger has answered for a name typed in capitals that is none of the
\* names first asked about, and the answer is the one of the water group
C11_Witness ==
    /\ call.done
    /\ call.fn = "recomendar_acciones"
    /\ call.args[1] \notin Nombres
    /\ call.args[1] = Upper(call.args[1])
    /\ In(<<"A", "G", "U", "A">>, call.args[1])
    /\ call.args[2].estado = Cumple
    /\ ret = <<RecAguaFugas, RecAguaRecirculacion>>

\* C12 as stated: the list recomendar_acciones returns is determined by the
\* name alone, so a call with the same name and another evaluation returns
\* the same list.
C12_SoloElNombre ==
    [][(/\ call.done /\ call'.done
        /\ call.fn = "recomendar_acciones" /\ call'.fn = call.fn
        /\ call'.args[1] = call.args[1])
       => ret' = ret]_vars

\* what recomendar_acciones reads of an evaluation: whether the status is
\* Fails, whether it is Warning, and whether diferencia_porcentual > 20
ClaseEvaluacion(evaluacion) ==
    <<EmpiezaRojo(evaluacion.estado), EmpiezaAdvertencia(evaluacion.estado),
      evaluacion.diferencia_porcentual.num
          > 20 * evaluacion.diferencia_porcentual.den>>

\* C12: the list recomendar_acciones returns is determined by the name
\* together with the status of the evaluation (Fails, Warning or neither)
\* and whether its diferencia_porcentual exceeds 20: a call with the same
\* name and an evaluation that agrees on these returns the same list.
C12_NombreEstadoYDiferencia ==
    [][(/\ call.done /\ call'.done
        /\ call.fn = "recomendar_acciones" /\ call'.fn = call.fn
        /\ call'.args[1] = call.args[1]
        /\ ClaseEvaluacion(call'.args[2]) = ClaseEvaluacion(call.args[2]))
       => ret' = ret]_vars

\* the tagger has answered for an energy name and a warning 10 % under the
\* target of a higher-is-better variable
C12_Witness ==
    /\ call.done
    /\ call.fn = "recomendar_acciones"
    /\ In(kw_energ, Lower(call.args[1]))
    /\ call.args[2] = evaluar_variable(90, 100, "mayor_mejor")
    /\ call.args[2].estado = Advertencia
    /\ ret = <<RecEnergiaMolino, RecEnergiaCalor, RecMonitorearSemanal>>

\* the labels of ods_auto_relacion
EtiquetasODS ==
    {ods_auto_relacion[k] : k \in DOMAIN ods_auto_relacion}

\* the name contains the keyword, letter case aside
Contiene(nombre, palabra) ==
    \E i \in 1..(Len(nombre) - Len(palabra) + 1) :
        SoloDifiereCaja(SubSeq(nombre, i, i + Len(palabra) - 1), palabra)

GrupoAgua(nombre) ==
    Contiene(nombre, kw_agua) \/ Contiene(nombre, kw_efluente)
GrupoEnergia(nombre) ==
    Contiene(nombre, kw_energ) \/ Contiene(nombre, kw_kwh)
GrupoResiduos(nombre) ==
    Contiene(nombre, kw_residuo) \/ Contiene(nombre, kw_lodos)
GrupoEmisiones(nombre) ==
    Contiene(nombre, kw_co2) \/ Contiene(nombre, kw_emision)
        \/ Contiene(nombre, kw_voc)

\* C13: identificar_ods returns one of the five labels of ods_auto_relacion
\* for every name; the label of the first group, in the order water, energy,
\* waste, emissions, one of whose keywords the name contains; and the
\* default label of ODS 9 when the name contains no keyword.
C13_PrimerGrupo ==
    (call.fn = "identificar_ods" /\ call.done) =>
        LET nombre == call.args[1] IN
        /\ ret \in EtiquetasODS
        /\ GrupoAgua(nombre) => ret = "ODS 6 - Agua Limpia y Saneamiento"
        /\ (~ GrupoAgua(nombre) /\ GrupoEnergia(nombre))
              => ret = "ODS 7 - Energía Asequible y No Contaminante"
        /\ (~ GrupoAgua(nombre) /\ ~ GrupoEnergia(nombre)
              /\ GrupoResiduos(nombre))
              => ret = "ODS 12 - Producción y Consumo Responsables"
        /\ (~ GrupoAgua(nombre) /\ ~ GrupoEnergia(nombre)
              /\ ~ GrupoResiduos(nombre) /\ GrupoEmisiones(nombre))
              => ret = "ODS 13 - Acción por el Clima"
        /\ (~ GrupoAgua(nombre) /\ ~ GrupoEnergia(nombre)
              /\ ~ GrupoResiduos(nombre) /\ ~ GrupoEmisiones(nombre))
              => ret = "ODS 9 - Industria, Innovación e Infraestructura"

\* identificar_ods has answered for a name with a water and an energy
\* keyword
C13_Witness ==
    /\ call.fn = "identificar_ods" /\ call.done
    /\ GrupoAgua(call.args[1]) /\ GrupoEnergia(call.args[1])
    /\ ret = ods_auto_relacion.agua

(***************************************************************************)
(* Claims about the session (specification Spec).                          *)
(***************************************************************************)
lotes_registrados == session_state.lotes_registrados
alert_counts      == session_state.alert_counts

\* C14: lots are never deleted.  The two seed lots are keys of
\* lotes_registrados in every state, and no step of the session (page
\* change, stage change, save, evaluate, clear, simulation, lot search, lot
\* registration) removes a key of it, so the number of lots never decreases.
C14_LotesNuncaBorrados ==
    /\ [](DOMAIN LotesIniciales \subseteq DOMAIN lotes_registrados)
    /\ [][/\ DOMAIN lotes_registrados \subseteq DOMAIN lotes_registrados'
          /\ Cardinality(DOMAIN lotes_registrados')
                >= Cardinality(DOMAIN lotes_registrados)]_vars

\* a third lot has been registered, a seed lot registered again, data saved
\* and cleared again, and Evaluar Datos pressed
C14_Witness ==
    /\ DOMAIN lotes_registrados = DOMAIN LotesIniciales \cup {codigo_auto}
    /\ lotes_registrados["LOTE-2024-1205"] = NuevoLote("", "", "")
    /\ session_state.last_eval_ts # None
    /\ session_state.datos_ingresados = EmptyDict
    /\ alert_counts # EmptyDict
    /\ pagina = PaginaSimulacion
    /\ pantalla.mensaje = MensajeSimulacion

\* the record of a (stage, variable) pair, as lines 613-614 read it
Registro(counts, etapa, var_nombre) ==
    Get(Get(counts, etapa, EmptyDict), var_nombre, [count |-> 0, last_ts |-> None])

\* the pairs of the model
Pares ==
    UNION {{<<etapa, var_nombre>> : var_nombre \in NombresEtapa(etapa)} :
           etapa \in Etapas}

\* the step is a press of Evaluar Datos
EvaluarPresionado == pagina = PaginaIngreso /\ clock' = clock + 1

\* C15 as stated: the count of a pair is the length of the run of
\* non-compliant evaluations that ends at its latest evaluation, so a press
\* of Evaluar Datos at which the variable fails adds 1 to the count and a
\* press at which it meets its target brings the count back to 0.
C15_ConteoConsecutivo ==
    [][EvaluarPresionado =>
         \A var_nombre \in NombresEtapa(etapa_evaluacion) :
            LET antes   == Registro(alert_counts, etapa_evaluacion, var_nombre)
                despues == Registro(alert_counts', etapa_evaluacion, var_nombre)
                estado  == pantalla'.estados[var_nombre]
            IN  /\ EmpiezaRojo(estado) => despues.count = antes.count + 1
                /\ estado = Cumple => despues.count = 0]_vars

\* C15: the count of a pair is the number of evaluations recorded for it
\* with status Fails since the session began, whether consecutive or not: a
\* press of Evaluar Datos at which the variable fails adds 1 to the count,
\* a press at which it does not fail leaves the count as it was, and no
\* step brings a count back to 0 or lowers it.
C15_ConteoAcumulado ==
    [][/\ \A par \in Pares :
             Registro(alert_counts', par[1], par[2]).count
                >= Registro(alert_counts, par[1], par[2]).count
       /\ EvaluarPresionado =>
             \A var_nombre \in NombresEtapa(etapa_evaluacion) :
                LET antes   == Registro(alert_counts, etapa_evaluacion, var_nombre)
                    despues == Registro(alert_counts', etapa_evaluacion, var_nombre)
                    estado  == pantalla'.estados[var_nombre]
                IN  despues.count =
                       antes.count + (IF EmpiezaRojo(estado) THEN 1 ELSE 0)]_vars

\* the second press of Evaluar Datos has found a variable of the stage
\* meeting its target, and the failure recorded at the first press is still
\* counted
C15_Witness ==
    /\ pagina = PaginaIngreso
    /\ clock = 2
    /\ \E var_nombre \in NombresEtapa(etapa_evaluacion) :
          /\ pantalla.estados[var_nombre] = Cumple
          /\ Registro(alert_counts, etapa_evaluacion, var_nombre)
                = [count |-> 1, last_ts |-> 2]

\* C16 as stated: alert_counts is empty before the first press of Evaluar
\* Datos, and it changes only in a step that is a press of Evaluar Datos,
\* and then only in the entry of the stage selected at the press.
C16_SoloAlEvaluar ==
    /\ [](session_state.last_eval_ts = None => alert_counts = EmptyDict)
    /\ [][alert_counts' # alert_counts =>
            /\ EvaluarPresionado
            /\ \A etapa \in Etapas \ {etapa_evaluacion} :
                  Get(alert_counts', etapa, EmptyDict)
                     = Get(alert_counts, etapa, EmptyDict)]_vars

\* C17: multiple increments are prevented.  The count of a pair is at most
\* the number of the press at which the pair was last recorded, which is at
\* most the number of presses of Evaluar Datos so far; in one step a count
\* grows by at most 1, and only when the pair is recorded under a later
\* press than before, so the renders that follow a press add nothing.
C17_UnIncrementoPorPresion ==
    /\ [](\A par \in Pares :
             LET registro == Registro(alert_counts, par[1], par[2])
             IN  /\ registro.count <= registro.last_ts
                 /\ registro.last_ts <= clock)
    /\ [][\A par \in Pares :
             LET antes   == Registro(alert_counts, par[1], par[2])
                 despues == Registro(alert_counts', par[1], par[2])
             IN  /\ despues.count <= antes.count + 1
                 /\ despues.count > antes.count
                       => despues.last_ts > antes.last_ts]_vars

\* a pair has failed at both presses, and its stage was saved and drawn
\* again after them
C17_Witness ==
    /\ clock = 2
    /\ pagina = PaginaIngreso
    /\ etapa_evaluacion \in DOMAIN session_state.datos_ingresados
    /\ \E var_nombre \in NombresEtapa(etapa_evaluacion) :
          /\ EmpiezaRojo(pantalla.estados[var_nombre])
          /\ Registro(alert_counts, etapa_evaluacion, var_nombre).count = 2

\* C18: when a step writes the record of a pair, the pair belongs to the
\* stage on the page, the count grows by 1 if the status shown for the
\* variable is Fails and stays as it was for Warning and Meets, and last_ts
\* becomes the timestamp of the latest press of Evaluar Datos.
C18_IncrementoSiNoCumple ==
    [][\A par \in Pares :
          LET antes   == Registro(alert_counts, par[1], par[2])
              despues == Registro(alert_counts', par[1], par[2])
          IN  despues # antes =>
                 /\ pagina' = PaginaIngreso /\ par[1] = etapa_evaluacion'
                 /\ despues.count =
                       IF EmpiezaRojo(pantalla'.estados[par[2]])
                       THEN antes.count + 1 ELSE antes.count
                 /\ despues.last_ts = session_state'.last_eval_ts
                 /\ despues.last_ts = clock']_vars

\* the page shows a Warning whose pair is recorded with count 0 and a
\* failure whose pair has count 1, both under the latest press
C18_Witness ==
    /\ pagina = PaginaIngreso
    /\ clock > 0
    /\ \E a, b \in NombresEtapa(etapa_evaluacion) :
          /\ EmpiezaAdvertencia(pantalla.estados[a])
          /\ Registro(alert_counts, etapa_evaluacion, a)
                = [count |-> 0, last_ts |-> clock]
          /\ EmpiezaRojo(pantalla.estados[b])
          /\ Registro(alert_counts, etapa_evaluacion, b)
                = [count |-> 1, last_ts |-> clock]

\* the step is a press of Guardar Datos or of Limpiar Datos: the page of
\* the evaluation is drawn again for the same stage, no function is called
\* and Evaluar Datos is not pressed
GuardarOLimpiar ==
    /\ pagina = PaginaIngreso /\ pagina' = pagina
    /\ etapa_evaluacion' = etapa_evaluacion
    /\ clock' = clock
    /\ call' = call /\ ret' = ret

\* C19: the alert history is never erased.  No step removes a stage or a
\* pair from alert_counts or lowers a count, and a press of Guardar Datos
\* or Limpiar Datos leaves alert_counts as it was.
C19_HistorialNoSeBorra ==
    /\ [][\A etapa \in DOMAIN alert_counts :
             /\ etapa \in DOMAIN alert_counts'
             /\ \A var_nombre \in DOMAIN alert_counts[etapa] :
                   /\ var_nombre \in DOMAIN alert_counts'[etapa]
                   /\ alert_counts'[etapa][var_nombre].count
                         >= alert_counts[etapa][var_nombre].count]_vars
    /\ [][GuardarOLimpiar => alert_counts' = alert_counts]_vars

\* the stage on the page has saved data and a recorded failure, and the
\* values saved make a variable fail that met its target at the press
C19_Witness ==
    /\ pagina = PaginaIngreso
    /\ etapa_evaluacion \in DOMAIN session_state.datos_ingresados
    /\ \E var_nombre \in NombresEtapa(etapa_evaluacion) :
          /\ EmpiezaRojo(pantalla.estados[var_nombre])
          /\ Registro(alert_counts, etapa_evaluacion, var_nombre)
                = [count |-> 0, last_ts |-> clock]

(***************************************************************************)
(* The dashboard drawn for sessions in which Evaluar Datos has been        *)
(* pressed MaxConteo times: every stage of the model is either without a   *)
(* record or recorded under the latest press, each of its variables with a *)
(* count from ConteosTablero.                                              *)
(***************************************************************************)
MaxConteo == 3

ConteosTablero == 2..MaxConteo

RegistrosEtapa(etapa) ==
    [NombresEtapa(etapa) -> [count : ConteosTablero, last_ts : {MaxConteo}]]

AlertasTablero ==
    UNION {{counts \in [etapas -> UNION {RegistrosEtapa(etapa) : etapa \in etapas}] :
               \A etapa \in etapas : counts[etapa] \in RegistrosEtapa(etapa)} :
           etapas \in SUBSET Etapas}

InitTablero ==
    /\ \E counts \in AlertasTablero :
          session_state = [SessionInit EXCEPT !.alert_counts = counts,
                                              !.last_eval_ts = MaxConteo]
    /\ pagina = Paginas[2]
    /\ etapa_evaluacion = PrimeraEtapa
    /\ clock = MaxConteo
    /\ pantalla = PantallaVacia
    /\ call = NoCall
    /\ ret = NoRet

NextTablero ==
    \E p \in {Paginas[i] : i \in 1..Len(Paginas)} : SeleccionarPagina(p)

SpecTablero == InitTablero /\ [][NextTablero]_vars

\* C20: while the dashboard is on the page, the persistent alert is shown
\* exactly when some pair of alert_counts has a count of 3 or more, and its
\* list has one entry, with the pair's count, for each such pair and no
\* other entry.
C20_AlertaPersistente ==
    pagina = PaginaTablero =>
        /\ pantalla.alerta <=>
              \E par \in Pares : Registro(alert_counts, par[1], par[2]).count >= 3
        /\ \A par \in Pares :
              LET entradas == {a \in pantalla.persistent_alarms :
                                  a.etapa = par[1] /\ a.variable = par[2]}
                  registro == Registro(alert_counts, par[1], par[2])
              IN  IF registro.count >= 3
                  THEN entradas = {[variable |-> par[2], etapa |-> par[1],
                                    count |-> registro.count]}
                  ELSE entradas = {}
        /\ \A a \in pantalla.persistent_alarms : <<a.etapa, a.variable>> \in Pares

\* the dashboard shows the alert with a pair counted 3 times and without a
\* recorded pair counted twice
C20_Witness ==
    /\ pagina = PaginaTablero
    /\ pantalla.alerta
    /\ \E par \in Pares :
          /\ Registro(alert_counts, par[1], par[2]).count = 3
          /\ [variable |-> par[2], etapa |-> par[1], count |-> 3]
                \in pantalla.persistent_alarms
    /\ \E par \in Pares :
          /\ Registro(alert_counts, par[1], par[2]).count = 2
          /\ \A a \in pantalla.persistent_alarms :
                <<a.etapa, a.variable>> # par

(***************************************************************************)
(* The tiers of evaluar_variable, checked under SpecEval.                  *)
(***************************************************************************)
\* the value passed misses the target passed, in the direction passed
NoAlcanzaObjetivo ==
    IF arg_tipo = "menor_mejor" THEN arg_valor > arg_objetivo
                                ELSE arg_valor < arg_objetivo

\* the number by which lines 218 and 231 divide
Divisor == IF arg_tipo = "menor_mejor" THEN arg_valor ELSE arg_objetivo
\* the number they divide
Dividendo == IF arg_tipo = "menor_mejor" THEN arg_objetivo ELSE arg_valor

\* C21: a value that misses its target is returned with the status
\* Advertencia exactly when its cumplimiento is >= 80 and with the status
\* No Cumple exactly when it is < 80, a cumplimiento of exactly 80 being
\* Advertencia; the cumplimiento is target / value x 100 in direction
\* menor_mejor and value / target x 100 in direction mayor_mejor (and 0
\* where that quotient would divide by 0).
C21_UmbralOchenta ==
    (Evaluated /\ NoAlcanzaObjetivo)
    => /\ Returned
       /\ ret.cumplimiento.den > 0
       /\ (ret.estado = Advertencia)
             <=> (ret.cumplimiento.num >= 80 * ret.cumplimiento.den)
       /\ (ret.estado = NoCumple)
             <=> (ret.cumplimiento.num < 80 * ret.cumplimiento.den)
       /\ IF Divisor # 0
          THEN ret.cumplimiento.num * Divisor
                  = Dividendo * 100 * ret.cumplimiento.den
          ELSE ret.cumplimiento = Num(0)

\* a value 5 against a target 4 has been returned with a cumplimiento of
\* exactly 80 and the status Advertencia
C21_Witness ==
    /\ Evaluated /\ arg_tipo = "menor_mejor"
    /\ arg_valor = 5 /\ arg_objetivo = 4
    /\ Returned /\ ret.cumplimiento = Num(80) /\ ret.estado = Advertencia
    /\ ret.color = "orange"

(***************************************************************************)
(* The closing recommendation, checked under SpecRec.                      *)
(***************************************************************************)
EnLista(elemento, lista) == \E i \in 1..Len(lista) : lista[i] = elemento

\* none of the keywords of lines 273-292 occurs in the lowered name
SinPalabraClave(var_nombre) ==
    LET v == Lower(var_nombre)
    IN  \A palabra \in {kw_agua, kw_efluente, kw_energ, kw_kwh, kw_molienda,
                        kw_residuo, kw_lodos, kw_acidos, kw_acido, kw_pureza,
                        kw_virutas, kw_emision, kw_co2, kw_voc} :
           ~ In(palabra, v)

\* C22: for every name, the list returned by recomendar_acciones holds the
\* entry 'Plan de accion inmediato' exactly when the status of the
\* evaluation is No Cumple and the entry 'Monitorear semanalmente' exactly
\* when it is Advertencia; for a name without any keyword and the status
\* Cumple the list is empty.
C22_CierrePorEstado ==
    Recommended =>
        /\ EnLista(RecPlanInmediato, ret) <=> (call.args[2].estado = NoCumple)
        /\ EnLista(RecMonitorearSemanal, ret) <=> (call.args[2].estado = Advertencia)
        /\ (SinPalabraClave(call.args[1]) /\ call.args[2].estado = Cumple)
              => ret = <<>>

\* a name of two words without a keyword and an evaluation with the status
\* Advertencia have been given the single entry 'Monitorear semanalmente'
C22_Witness ==
    /\ Recommended
    /\ Len(call.args[1]) = 9
    /\ SinPalabraClave(call.args[1])
    /\ call.args[2].estado = Advertencia
    /\ ret = <<RecMonitorearSemanal>>

(***************************************************************************)
(* The data of page 3: stages are selected, Guardar Datos is pressed with  *)
(* any form of Formularios in the inputs and Limpiar Datos with any of     *)
(* them or with the starting values.                                       *)
(***************************************************************************)
datos_ingresados == session_state.datos_ingresados

FormulariosEnPantalla ==
    Formularios(etapa_evaluacion)
        \cup {FormularioInicial(session_state, etapa_evaluacion)}

NextDatos ==
    \/ \E p \in {Paginas[i] : i \in 1..Len(Paginas)} : SeleccionarPagina(p)
    \/ \E etapa \in Etapas : SeleccionarEtapa(etapa)
    \/ \E datos_formulario \in Formularios(etapa_evaluacion) :
          ClickGuardar(datos_formulario)
    \/ \E datos_formulario \in FormulariosEnPantalla :
          ClickLimpiar(datos_formulario)

SpecDatos == Init /\ [][NextDatos]_vars

\* every stage other than the selected one has after the step the saved
\* values it had before, or none as before
OtrasEtapasIguales ==
    /\ DOMAIN datos_ingresados' \ {etapa_evaluacion}
          = DOMAIN datos_ingresados \ {etapa_evaluacion}
    /\ \A etapa \in DOMAIN datos_ingresados \ {etapa_evaluacion} :
          datos_ingresados'[etapa] = datos_ingresados[etapa]

\* C23: Guardar Datos and Limpiar Datos touch only the selected stage.
\* After a press of Guardar Datos datos_ingresados of the selected stage
\* holds the value the form has for every variable of the stage; after a
\* press of Limpiar Datos the selected stage is not a key of
\* datos_ingresados, whether it was one before or not; in both cases the
\* saved values of every other stage are as they were.
C23_SoloLaEtapaSeleccionada ==
    [][/\ \A datos_formulario \in Formularios(etapa_evaluacion) :
             ClickGuardar(datos_formulario) =>
                /\ etapa_evaluacion \in DOMAIN datos_ingresados'
                /\ DOMAIN datos_ingresados'[etapa_evaluacion]
                      = NombresEtapa(etapa_evaluacion)
                /\ datos_ingresados'[etapa_evaluacion] = datos_formulario
                /\ OtrasEtapasIguales
       /\ \A datos_formulario \in FormulariosEnPantalla :
             ClickLimpiar(datos_formulario) =>
                /\ etapa_evaluacion \notin DOMAIN datos_ingresados'
                /\ OtrasEtapasIguales]_vars

\* the stage on the page has no saved data while another stage keeps a
\* saved form in which a value was typed over the one of the table
C23_Witness ==
    /\ pagina = PaginaIngreso
    /\ etapa_evaluacion \notin DOMAIN datos_ingresados
    /\ \E etapa \in DOMAIN datos_ingresados :
          /\ etapa # etapa_evaluacion
          /\ datos_ingresados[etapa] \in Formularios(etapa)
          /\ datos_ingresados[etapa] # FormularioInicial(SessionInit, etapa)

(***************************************************************************)
(* The lots of page "Economia Circular": lots are registered under the     *)
(* codes of CodigosLote with the texts of the form empty or typed, and     *)
(* looked up.                                                              *)
(***************************************************************************)
Origenes        == {"", "Reciclaje externo"}
TiposMaterial   == {"", "Cobre C11000"}
Certificaciones == {"", "ASTM B88"}

NextLotes ==
    \/ \E p \in {Paginas[i] : i \in 1..Len(Paginas)} : SeleccionarPagina(p)
    \/ \E codigo_lote \in CodigosLote, origen \in Origenes,
          tipo \in TiposMaterial, certificacion \in Certificaciones :
          ClickRegistrarLote(codigo_lote, origen, tipo, certificacion)
    \/ \E lote_buscar \in CodigosBuscados : ClickRastrearLote(lote_buscar)

SpecLotes == Init /\ [][NextLotes]_vars

\* the keys of the dict of lines 1097-1106
CamposLote ==
    {"Origen", "Tipo", "Contenido_reciclado", "Pureza", "Fecha_ingreso",
     "Masa_total", "Estado", "Certificacion"}

\* C24: a press of Registrar Lote with an empty code shows the error and
\* leaves lotes_registrados as it was; with a non-empty code the code is a
\* key of lotes_registrados after the press and its record has exactly the
\* eight fields of CamposLote, an origin, type or certification left empty
\* being stored as 'No especificado' / 'No especificada' and a typed one as
\* typed.
C24_RegistroDeLote ==
    [][\A codigo_lote \in CodigosLote, origen \in Origenes,
          tipo \in TiposMaterial, certificacion \in Certificaciones :
          ClickRegistrarLote(codigo_lote, origen, tipo, certificacion) =>
             IF codigo_lote = ""
             THEN /\ lotes_registrados' = lotes_registrados
                  /\ pantalla'.mensaje = MensajeCodigoVacio
             ELSE /\ codigo_lote \in DOMAIN lotes_registrados'
                  /\ DOMAIN lotes_registrados'[codigo_lote] = CamposLote
                  /\ lotes_registrados'[codigo_lote].Origen
                        = (IF origen = "" THEN "No especificado" ELSE origen)
                  /\ lotes_registrados'[codigo_lote].Tipo
                        = (IF tipo = "" THEN "No especificado" ELSE tipo)
                  /\ lotes_registrados'[codigo_lote].Certificacion
                        = (IF certificacion = "" THEN "No especificada"
                           ELSE certificacion)
                  /\ pantalla'.mensaje # MensajeCodigoVacio]_vars

\* the proposed code has been registered with a typed origin and without
\* type or certification, and a press without a code has just been rejected
C24_Witness ==
    /\ pagina = PaginaEconomia
    /\ pantalla.mensaje = MensajeCodigoVacio
    /\ codigo_auto \in DOMAIN lotes_registrados
    /\ lotes_registrados[codigo_auto].Origen = "Reciclaje externo"
    /\ lotes_registrados[codigo_auto].Tipo = "No especificado"
    /\ lotes_registrados[codigo_auto].Certificacion = "No especificada"

\* C25: a press of Registrar Lote with a code that is already a key of
\* lotes_registrados replaces the record of that code by the one submitted,
\* leaves the number of lots as it was and the record of every other code
\* unchanged.
C25_ActualizaLoteExistente ==
    [][\A codigo_lote \in CodigosLote \ {""}, origen \in Origenes,
          tipo \in TiposMaterial, certificacion \in Certificaciones :
          (/\ codigo_lote \in DOMAIN lotes_registrados
           /\ ClickRegistrarLote(codigo_lote, origen, tipo, certificacion)) =>
             /\ lotes_registrados'[codigo_lote]
                   = NuevoLote(origen, tipo, certificacion)
             /\ DOMAIN lotes_registrados' = DOMAIN lotes_registrados
             /\ Cardinality(DOMAIN lotes_registrados')
                   = Cardinality(DOMAIN lotes_registrados)
             /\ \A codigo \in DOMAIN lotes_registrados \ {codigo_lote} :
                   lotes_registrados'[codigo] = lotes_registrados[codigo]]_vars

\* a seed lot has been registered again with a typed certification: its
\* record is the submitted one, the other seed lot has its first record and
\* there are two lots as at the start
C25_Witness ==
    /\ pagina = PaginaEconomia
    /\ DOMAIN lotes_registrados = DOMAIN LotesIniciales
    /\ lotes_registrados["LOTE-2024-1205"] = NuevoLote("", "", "ASTM B88")
    /\ lotes_registrados["LOTE-2024-1205"] # LotesIniciales["LOTE-2024-1205"]
    /\ lotes_registrados["LOTE-2024-1201"] = LotesIniciales["LOTE-2024-1201"]

(***************************************************************************)
(* The one-shot flags, checked under Spec.                                 *)
(***************************************************************************)
\* C26: the one-shot flags are always consumed.  The handler of Evaluar
\* Datos sets evaluar and the one of Ejecutar Simulacion sets simular, and
\* at the end of every run of the script, after any page selections and
\* button presses, evaluar and simular are both False.
C26_BanderasConsumidas ==
    /\ PresionarEvaluar(session_state, clock + 1).evaluar
    /\ PresionarSimular(session_state).simular
    /\ session_state.evaluar = FALSE
    /\ session_state.simular = FALSE

\* Evaluar Datos has been pressed, then Ejecutar Simulacion, whose results
\* are on the page, and both flags are False
C26_Witness ==
    /\ pagina = PaginaSimulacion
    /\ pantalla.mensaje = MensajeSimulacion
    /\ clock = 1
    /\ session_state.last_eval_ts = 1
    /\ ~ session_state.evaluar
    /\ ~ session_state.simular

(***************************************************************************)
(* Simulation over sessions with data.  The session starts on page 3 after *)
(* any forms of Formularios were saved for any stages and, in half of the  *)
(* sessions, Evaluar Datos was then pressed once on the first stage; from  *)
(* there every page is visited, a lot is registered, and on the simulation *)
(* page every stage is selected and Ejecutar Simulacion pressed with any   *)
(* form of Formularios or the base values in the inputs.                   *)
(***************************************************************************)
\* what datos_ingresados can hold after presses of Guardar Datos
DatosGuardados ==
    UNION {{datos \in [etapas -> UNION {Formularios(etapa) : etapa \in etapas}] :
               \A etapa \in etapas : datos[etapa] \in Formularios(etapa)} :
           etapas \in SUBSET Etapas}

InitSimulacion ==
    /\ \E datos \in DatosGuardados, evaluado \in BOOLEAN :
          LET guardado == [SessionInit EXCEPT !.datos_ingresados = datos]
              formulario == FormularioInicial(guardado, PrimeraEtapa)
          IN  /\ session_state =
                    IF evaluado
                    THEN BloqueEvaluacion(PresionarEvaluar(guardado, 1),
                                          PrimeraEtapa, formulario)
                    ELSE guardado
              /\ clock = IF evaluado THEN 1 ELSE 0
              /\ pantalla = PantallaEvaluacion(PrimeraEtapa, formulario)
    /\ pagina = PaginaIngreso
    /\ etapa_evaluacion = PrimeraEtapa
    /\ call = NoCall
    /\ ret = NoRet

NextSimulacion ==
    \/ \E p \in {Paginas[i] : i \in 1..Len(Paginas)} : SeleccionarPagina(p)
    \/ ClickRegistrarLote(codigo_auto, "", "", "")
    \/ \E etapa_simulacion \in Etapas :
          SeleccionarEtapaSimulacion(etapa_simulacion)
    \/ /\ pagina = PaginaSimulacion
       /\ \E cambios_simulacion \in
                Formularios(pantalla.etapa_simulacion)
                   \cup {datos_base(session_state, pantalla.etapa_simulacion)} :
             ClickSimular(cambios_simulacion)

SpecSimulacion == InitSimulacion /\ [][NextSimulacion]_vars

\* the value the table gives a variable of a stage
ValorDeTabla(etapa, var_nombre) ==
    LET variables == variables_etapa(etapa)
    IN  variables[CHOOSE j \in 1..Len(variables) :
                      variables[j].nombre = var_nombre].actual

\* C27: the simulation is read-only.  A run that draws the simulation page
\* (on entering it, on selecting a stage, on a press of Ejecutar
\* Simulacion with any values) changes none of datos_ingresados,
\* alert_counts, last_eval_ts and lotes_registrados; and the base values it
\* shows and compares against are, for every variable of the selected
\* stage, the saved value when the stage has saved data and the value
\* 'actual' of the table otherwise.
C27_SimulacionSoloLee ==
    /\ [][pagina' = PaginaSimulacion =>
            /\ datos_ingresados' = datos_ingresados
            /\ alert_counts' = alert_counts
            /\ session_state'.last_eval_ts = session_state.last_eval_ts
            /\ lotes_registrados' = lotes_registrados]_vars
    /\ [](pagina = PaginaSimulacion =>
            /\ pantalla.etapa_simulacion \in Etapas
            /\ DOMAIN pantalla.datos_base = NombresEtapa(pantalla.etapa_simulacion)
            /\ \A var_nombre \in NombresEtapa(pantalla.etapa_simulacion) :
                  pantalla.datos_base[var_nombre] =
                     IF pantalla.etapa_simulacion \in DOMAIN datos_ingresados
                     THEN datos_ingresados[pantalla.etapa_simulacion][var_nombre]
                     ELSE ValorDeTabla(pantalla.etapa_simulacion, var_nombre))

\* the results of a simulation are shown for a stage other than the first,
\* whose base values are saved ones that differ from the table, in a
\* session with recorded alerts and a registered lot
C27_Witness ==
    /\ pagina = PaginaSimulacion
    /\ pantalla.mensaje = MensajeSimulacion
    /\ pantalla.etapa_simulacion # PrimeraEtapa
    /\ pantalla.etapa_simulacion \in DOMAIN datos_ingresados
    /\ \E var_nombre \in NombresEtapa(pantalla.etapa_simulacion) :
          /\ pantalla.datos_base[var_nombre]
                # ValorDeTabla(pantalla.etapa_simulacion, var_nombre)
          /\ EmpiezaRojo(pantalla.estados[var_nombre])
    /\ alert_counts # EmptyDict
    /\ session_state.last_eval_ts # None
    /\ codigo_auto \in DOMAIN lotes_registrados

(***************************************************************************)
(* The chart of page "Variables Criticas" against the evaluator.           *)
(***************************************************************************)
\* the average over the variables of a stage of the cumplimiento that
\* evaluar_variable returns for the values of the table, each variable in
\* the direction determinar_tipo_variable gives its name
PromedioEvaluador(etapa) ==
    LET variables == variables_etapa(etapa)
        RECURSIVE total(_)
        total(i) ==
            IF i > Len(variables) THEN Num(0)
            ELSE Suma(evaluar_variable(variables[i].actual, variables[i].objetivo,
                          determinar_tipo_variable(Caracteres(variables[i].nombre))
                      ).cumplimiento,
                      total(i + 1))
    IN  Frac(total(1).num, total(1).den * Len(variables))

\* C28 as stated: for every stage of the table, the compliance charted on
\* page "Variables Criticas" is the average over the stage's variables of
\* the cumplimiento of evaluar_variable(actual, objetivo,
\* determinar_tipo_variable(name)).
C28_MismoCumplimiento ==
    pagina = PaginaVariables =>
        \A i \in 1..Len(variables_criticas) :
            pantalla.cumplimiento_data[variables_criticas[i].etapa]
               = PromedioEvaluador(variables_criticas[i].etapa)

(***************************************************************************)
(* The summary of the stage on page 3: stages are selected and values      *)
(* typed into the inputs, each input holding 0, the value or the target of *)
(* the table, or the target scaled by 2, 4/5 or 5/4.                       *)
(***************************************************************************)
ValoresResumen(var_data) ==
    {0, var_data.actual, var_data.objetivo, 2 * var_data.objetivo,
     (4 * var_data.objetivo) \div 5, (5 * var_data.objetivo) \div 4}

FormulariosResumen(etapa) ==
    LET variables == variables_etapa(etapa)
        fila(var_nombre) ==
            variables[CHOOSE j \in 1..Len(variables) :
                          variables[j].nombre = var_nombre]
    IN  {f \in [NombresEtapa(etapa) ->
                   UNION {ValoresResumen(variables[i]) : i \in 1..Len(variables)}] :
            \A var_nombre \in NombresEtapa(etapa) :
                f[var_nombre] \in ValoresResumen(fila(var_nombre))}

NextResumen ==
    \/ \E p \in {Paginas[i] : i \in 1..Len(Paginas)} : SeleccionarPagina(p)
    \/ \E etapa \in Etapas : SeleccionarEtapa(etapa)
    \/ /\ pagina = PaginaIngreso
       /\ \E datos_formulario \in FormulariosResumen(etapa_evaluacion) :
             EditarFormulario(datos_formulario)

SpecResumen == Init /\ [][NextResumen]_vars

\* the average of the cumplimiento shown for the variables of a stage
PromedioMostrado(etapa) ==
    LET variables == variables_etapa(etapa)
        RECURSIVE total(_)
        total(i) ==
            IF i > Len(variables) THEN Num(0)
            ELSE Suma(pantalla.cumplimientos[variables[i].nombre], total(i + 1))
    IN  Frac(total(1).num, total(1).den * Len(variables))

====
